---- MODULE Spec2Model ----
(***************************************************************************)
(* A model of the state and persistence layer of the notes application:    *)
(*   - appReducer and the AppProvider that mirrors the store to            *)
(*     localStorage (src/src/contexts/AppContext.tsx),                     *)
(*   - the versioned storage adapter with importData / exportData          *)
(*     (src/src/utils/storage.ts).                                         *)
(*                                                                         *)
(* Conventions of the model                                                *)
(*   - identifiers (UUID strings) are the positive naturals 1, 2, ... in   *)
(*     the order generateUUID issues them;                                 *)
(*   - a timestamp (Date.now(), new Date().toISOString()) is the value of  *)
(*     the clock `now`, a positive natural; ISO strings and the 13-digit   *)
(*     millisecond stamps of backup keys order like these numbers;         *)
(*   - JavaScript null is Null and a missing property is Undefined;        *)
(*   - a localStorage key is a record [prefix, name, ts]: the plain key    *)
(*     'notes-app-data' is ["", "notes-app-data", 0] and the backup key    *)
(*     `notes-backup-${name}-${ts}` is ["notes-backup-", name, ts];        *)
(*   - a stored string is [json |-> TRUE, v |-> value] when it is the      *)
(*     JSON text of value and [json |-> FALSE] when it does not parse.     *)
(***************************************************************************)
EXTENDS Integers, Sequences, FiniteSets, TLC

\* ------------------------------------------------------------------ bounds
\* identifiers generateUUID may issue in one run
MaxIds == 2
\* last value of the clock
MaxTime == 5
\* debounce timers that fire in one run of AppProvider
MaxFires == 2
\* 'storage' events delivered to a tab and not yet handled
MaxInbox == 1
\* notes in the store when the list is rendered
MaxListed == 3

\* ------------------------------------------------------- program constants
\* JavaScript null (selectedNoteId: null, deletedAt: null)
Null == 0
\* a property that is not set (deletedAt?: ...)
Undefined == -1
\* backups createBackup keeps per key
BackupsKept == 3

VARIABLES
  store,      \* AppState held by useReducer
  now,        \* the wall clock
  uuid,       \* number of identifiers generateUUID has issued
  timer,      \* saveTimeoutRef: <<>> or <<[key, data]>>, the pending debounced save
  ls,         \* localStorage: a function from the keys present to the stored strings
  events,     \* the 'storage-error' events the last step dispatched on window
  mounted,    \* AppProvider has rendered (its initial loads are done)
  ret,        \* <<>> or <<what the last mount, importData or exportData returned or threw>>
  lastStep,   \* history: the kind of the last step
  lastSave,   \* history: <<>> or <<the last call of saveToLocalStorage>>
  imported,   \* history: an IMPORT_DATA action has been reduced
  dirty,      \* history: keys changed since the last write attempted for them
  failedKeys, \* history: keys whose last save reported failure
  before,     \* history: [store, ls] as they were before the last step
  hook        \* a component's useLocalStorage: [key, state, error, pending, inbox, prev]

vars == <<store, now, uuid, timer, ls, events, mounted, ret, lastStep, lastSave,
          imported, dirty, failedKeys, before, hook>>

\* ------------------------------------------------------------ sequences
Range(s) == {s[i] : i \in DOMAIN s}

\* object spread {...obj, ...changes}
Merge(obj, changes) ==
  [k \in DOMAIN obj \cup DOMAIN changes |->
     IF k \in DOMAIN changes THEN changes[k] ELSE obj[k]]

\* no component of the page calls useLocalStorage
NoEvent == [key |-> "", removed |-> FALSE]
NoHook == [key |-> "", state |-> <<>>, error |-> FALSE, pending |-> <<>>, inbox |-> <<>>,
           prev |-> <<>>, handled |-> NoEvent]

\* ------------------------------------------------------------ the store
defaultPreferences == [theme |-> "system", density |-> "comfortable", tagFilterMode |-> "ANY"]

defaultFilters ==
  [search |-> "", tags |-> <<>>, showArchived |-> FALSE, showPinned |-> TRUE,
   showUntagged |-> FALSE, sortBy |-> "updatedAt", sortDirection |-> "desc"]

defaultState ==
  [notes |-> <<>>, tags |-> <<>>, preferences |-> defaultPreferences,
   filters |-> defaultFilters, selectedNoteId |-> Null, isEditing |-> FALSE]

\* targetNote[key] !== value: a tagIds array handed to the reducer is a new
\* array (NoteEditor.toggleTag builds one), never identical to the stored one
StrictNotEqual(key, a, b) == IF key = "tagIds" THEN TRUE ELSE a # b

FindNote(notes, id) == {i \in DOMAIN notes : notes[i].id = id}

\* an ADD_NOTE that names every note alike
ReduceAddNoteSameId(state, payload, t, id) ==
  LET newNote == Merge([id |-> MaxIds, createdAt |-> t, updatedAt |-> t,
                        deletedAt |-> Undefined], payload)
  IN [state EXCEPT !.notes = <<newNote>> \o state.notes,
                   !.selectedNoteId = MaxIds,
                   !.isEditing = TRUE]

ReduceAddNote(state, payload, t, id) ==
  LET newNote == Merge([id |-> id, createdAt |-> t, updatedAt |-> t, deletedAt |-> Undefined],
                       payload)
  IN [state EXCEPT !.notes = <<newNote>> \o state.notes,
                   !.selectedNoteId = id,
                   !.isEditing = TRUE]

\* UPDATE_NOTE finds the note and some entry of the payload differs from it
UpdateNoteHasChanges(state, id, changes) ==
  LET hit == FindNote(state.notes, id)
  IN /\ hit # {}
     /\ LET targetNote == state.notes[CHOOSE i \in hit : \A j \in hit : i <= j]
        IN \E k \in DOMAIN changes : StrictNotEqual(k, targetNote[k], changes[k])

ReduceUpdateNote(state, id, changes, t) ==
  IF ~UpdateNoteHasChanges(state, id, changes) THEN state
  ELSE [state EXCEPT !.notes =
          [i \in DOMAIN state.notes |->
             IF state.notes[i].id = id
             THEN [Merge(state.notes[i], changes) EXCEPT !.updatedAt = t]
             ELSE state.notes[i]]]

\* a DELETE_NOTE that takes the note out of the store
ReduceDeleteNoteHard(state, id, t) ==
  [state EXCEPT !.notes = SelectSeq(state.notes, LAMBDA note : note.id # id),
                !.selectedNoteId = IF state.selectedNoteId = id THEN Null
                                   ELSE state.selectedNoteId]

ReduceDeleteNote(state, id, t) ==
  [state EXCEPT !.notes = [i \in DOMAIN state.notes |->
                             IF state.notes[i].id = id
                             THEN Merge(state.notes[i], [deletedAt |-> t])
                             ELSE state.notes[i]],
                !.selectedNoteId = IF state.selectedNoteId = id THEN Null
                                   ELSE state.selectedNoteId]

\* a RESTORE_NOTE that restores nothing
ReduceRestoreNoteNever(state, id) == state

ReduceRestoreNote(state, id) ==
  [state EXCEPT !.notes = [i \in DOMAIN state.notes |->
                             IF state.notes[i].id = id
                             THEN Merge(state.notes[i], [deletedAt |-> Null])
                             ELSE state.notes[i]]]

ReduceAddTag(state, payload, t, id) ==
  [state EXCEPT !.tags = state.tags \o
      <<Merge([id |-> id, createdAt |-> t, updatedAt |-> t], payload)>>]

ReduceUpdateTag(state, id, changes, t) ==
  [state EXCEPT !.tags = [i \in DOMAIN state.tags |->
                            IF state.tags[i].id = id
                            THEN [Merge(state.tags[i], changes) EXCEPT !.updatedAt = t]
                            ELSE state.tags[i]]]

\* a DELETE_TAG that leaves the notes as they are
ReduceDeleteTagKeepRefs(state, id) ==
  [state EXCEPT !.tags = SelectSeq(state.tags, LAMBDA tag : tag.id # id)]

ReduceDeleteTag(state, id) ==
  [state EXCEPT !.tags = SelectSeq(state.tags, LAMBDA tag : tag.id # id),
                !.notes = [i \in DOMAIN state.notes |->
                             [state.notes[i] EXCEPT !.tagIds =
                                SelectSeq(state.notes[i].tagIds,
                                          LAMBDA tagId : tagId # id)]]]

\* appReducer(state, action); t is the clock and id the identifier the
\* reducer reads while it runs
appReducer(state, action, t, id) ==
  CASE action.type = "ADD_NOTE" -> ReduceAddNote(state, action.payload, t, id)
    [] action.type = "UPDATE_NOTE" -> ReduceUpdateNote(state, action.id, action.payload, t)
    [] action.type = "DELETE_NOTE" -> ReduceDeleteNote(state, action.id, t)
    [] action.type = "RESTORE_NOTE" -> ReduceRestoreNote(state, action.id)
    [] action.type = "ADD_TAG" -> ReduceAddTag(state, action.payload, t, id)
    [] action.type = "UPDATE_TAG" -> ReduceUpdateTag(state, action.id, action.payload, t)
    [] action.type = "DELETE_TAG" -> ReduceDeleteTag(state, action.id)
    [] action.type = "UPDATE_PREFERENCES" ->
         [state EXCEPT !.preferences = Merge(state.preferences, action.payload)]
    [] action.type = "UPDATE_FILTERS" ->
         [state EXCEPT !.filters = Merge(state.filters, action.payload)]
    [] action.type = "SELECT_NOTE" ->
         [state EXCEPT !.selectedNoteId = action.id, !.isEditing = FALSE]
    [] action.type = "SET_EDITING" -> [state EXCEPT !.isEditing = action.isEditing]
    [] action.type = "IMPORT_DATA" ->
         [state EXCEPT !.notes = action.payload.notes,
                       !.tags = action.payload.tags,
                       !.preferences = action.payload.preferences]
    [] OTHER -> state

\* effects that take every slice for changed
TouchedEvery(state, action) == {"notes", "tags", "preferences"}

\* the slices whose object identity the reducer changes: Array.map, Array.filter
\* and object spread always build a new object, and the effects of AppProvider
\* compare identities
Touched(state, action) ==
  CASE action.type \in {"ADD_NOTE", "DELETE_NOTE", "RESTORE_NOTE"} -> {"notes"}
    [] action.type = "UPDATE_NOTE" ->
         IF UpdateNoteHasChanges(state, action.id, action.payload) THEN {"notes"} ELSE {}
    [] action.type \in {"ADD_TAG", "UPDATE_TAG"} -> {"tags"}
    [] action.type = "DELETE_TAG" -> {"notes", "tags"}
    [] action.type = "UPDATE_PREFERENCES" -> {"preferences"}
    [] action.type = "IMPORT_DATA" -> {"notes", "tags", "preferences"}
    [] OTHER -> {}

\* ------------------------------------------------------------------ JSON
\* a value that is serialized carries its JSON type
JArr(items) == [t |-> "array", items |-> items]
JObj(fields) == [t |-> "object", fields |-> fields]

\* the properties that may be undefined, and those that hold an array or object
OptionalFields == {"deletedAt"}
NestedFields == {"data", "notes", "tags", "preferences"}

\* JSON.stringify leaves out a property whose value is undefined
Defined(obj) ==
  [k \in {x \in DOMAIN obj : ~(x \in OptionalFields /\ obj[x] = Undefined)} |-> obj[k]]

RECURSIVE ToJSON(_)
\* the value a JSON text denotes: what JSON.parse(JSON.stringify(value)) returns
ToJSON(value) ==
  IF value.t = "array"
  THEN JArr([i \in DOMAIN value.items |-> Defined(value.items[i])])
  ELSE JObj([k \in DOMAIN value.fields |->
               IF k \in NestedFields THEN ToJSON(value.fields[k]) ELSE value.fields[k]])

\* JSON.stringify
Stringify(value) == [json |-> TRUE, v |-> ToJSON(value)]
\* a stored string JSON.parse throws on
Corrupt == [json |-> FALSE]
\* JSON.parse succeeds
Parses(str) == str.json
\* JSON.parse
Parse(str) == str.v

\* --------------------------------------------------------- localStorage
NOTES == "notes-app-data"
TAGS == "notes-app-tags"
PREFERENCES == "notes-app-prefs"
BACKUP_PREFIX == "notes-backup-"
METADATA == "notes-metadata"

Key(name) == [prefix |-> "", name |-> name, ts |-> 0]
\* `${STORAGE_KEYS.BACKUP_PREFIX}${name}-${ts}`
BackupKey(name, ts) == [prefix |-> BACKUP_PREFIX, name |-> name, ts |-> ts]

EmptyStorage == [k \in {} |-> Corrupt]
\* localStorage.setItem that succeeds
SetItem(l, k, str) == [x \in DOMAIN l \cup {k} |-> IF x = k THEN str ELSE l[x]]
\* localStorage.removeItem of each of the keys ks
RemoveAll(l, ks) == [x \in DOMAIN l \ ks |-> l[x]]

\* what a call of localStorage.setItem can do
Outcomes == {"ok", "quota", "error"}
\* getStorageUsage().percentage: at most 90 (only a warning above 80), above 90
UsageLevels == {"low", "full"}

\* keys.sort().reverse(): newest stamp first
RECURSIVE SortDesc(_)
SortDesc(ks) ==
  IF ks = {} THEN <<>>
  ELSE LET m == CHOOSE k \in ks : \A j \in ks : j.ts <= k.ts
       IN <<m>> \o SortDesc(ks \ {m})

\* Array.prototype.slice(n)
Slice(s, n) == SubSeq(s, n + 1, Len(s))

\* the log of one call: the mutations of localStorage in the order made
LogSet(stage, k, res) == [stage |-> stage, op |-> "set", key |-> k, res |-> res]
LogRemoves(stage, ks) == [i \in DOMAIN ks |-> [stage |-> stage, op |-> "remove", key |-> ks[i], res |-> "ok"]]

\* k.startsWith(`${STORAGE_KEYS.BACKUP_PREFIX}${name}-`)
BackupsOf(l, name) == {k \in DOMAIN l : k.prefix = BACKUP_PREFIX /\ k.name = name}
\* k.startsWith(STORAGE_KEYS.BACKUP_PREFIX)
AllBackups(l) == {k \in DOMAIN l : k.prefix = BACKUP_PREFIX}

\* ------------------------------------------------- the persistence manager
\* A step of a save takes and returns [ls, log]: the storage and the mutations
\* made so far.
Logged(st, l, entries) == [ls |-> l, log |-> st.log \o entries]

\* backupKeys.slice(keep).forEach(k => localStorage.removeItem(k))
DropOld(st, stage, old) == Logged(st, RemoveAll(st.ls, Range(old)), LogRemoves(stage, old))

\* a pruning that keeps one backup more than createBackup does
PruneOwnBackupsKeepFour(st, key) ==
  DropOld(st, "backup", Slice(SortDesc(BackupsOf(st.ls, key)), BackupsKept + 1))

\* the backup is stored: all but the 3 newest backups of the key are removed
PruneOwnBackups(st, key) ==
  DropOld(st, "backup", Slice(SortDesc(BackupsOf(st.ls, key)), BackupsKept))

\* createBackup(key, data) at time t; outcome is what its setItem does.
\* A setItem that throws is caught: nothing is pruned.
createBackup(st, key, data, t, outcome) ==
  IF outcome # "ok"
  THEN Logged(st, st.ls, <<LogSet("backup", BackupKey(key, t), outcome)>>)
  ELSE PruneOwnBackups(
         Logged(st,
                SetItem(st.ls, BackupKey(key, t),
                        Stringify(JObj([timestamp |-> t, data |-> data, originalKey |-> key]))),
                <<LogSet("backup", BackupKey(key, t), "ok")>>),
         key)

\* the keys of the superseded scheme that handleQuotaExceeded names
oldKeys == <<"app.notes.v1", "app.tags.v1", "app.preferences.v1">>

\* Step 1 of handleQuotaExceeded: oldKeys.forEach, removing those present
RemoveOldKeys(st) ==
  DropOld(st, "legacy",
          SelectSeq([i \in DOMAIN oldKeys |-> Key(oldKeys[i])], LAMBDA k : k \in DOMAIN st.ls))

\* backupKey.split('-').slice(0, -1).join('-'): the key without its stamp
BaseKey(k) == [prefix |-> k.prefix, name |-> k.name]

RECURSIVE OldOfGroups(_, _, _)
\* backupsByKey.forEach: of every group, all but the `keep` newest
OldOfGroups(l, bases, keep) ==
  IF bases = {} THEN <<>>
  ELSE LET b == CHOOSE x \in bases : TRUE
       IN Slice(SortDesc({k \in AllBackups(l) : BaseKey(k) = b}), keep)
          \o OldOfGroups(l, bases \ {b}, keep)

\* a step 2 that keeps no backup
PruneAllBackupsKeepNone(st) ==
  DropOld(st, "prune", OldOfGroups(st.ls, {BaseKey(k) : k \in AllBackups(st.ls)}, 0))

\* Step 2 of handleQuotaExceeded: one backup, the newest, is kept per base key
PruneAllBackups(st) ==
  DropOld(st, "prune", OldOfGroups(st.ls, {BaseKey(k) : k \in AllBackups(st.ls)}, 1))

\* a retry whose failure dispatches no event
RetryWriteSilent(st, key, data, outcome) ==
  IF outcome = "ok"
  THEN [ls |-> SetItem(st.ls, Key(key), Stringify(data)), ok |-> TRUE, events |-> <<>>,
        log |-> st.log \o <<LogSet("retry", Key(key), "ok")>>]
  ELSE [ls |-> st.ls, ok |-> FALSE, events |-> <<>>,
        log |-> st.log \o <<LogSet("retry", Key(key), outcome)>>]

\* Step 3 of handleQuotaExceeded and its catch block
RetryWrite(st, key, data, outcome) ==
  IF outcome = "ok"
  THEN [ls |-> SetItem(st.ls, Key(key), Stringify(data)), ok |-> TRUE, events |-> <<>>,
        log |-> st.log \o <<LogSet("retry", Key(key), "ok")>>]
  ELSE [ls |-> st.ls, ok |-> FALSE,
        events |-> <<[type |-> "quota_exceeded", key |-> key]>>,
        log |-> st.log \o <<LogSet("retry", Key(key), outcome)>>]

\* a recovery that prunes the backups before it removes the old keys
handleQuotaExceededPruneFirst(st, key, data, outcome) ==
  RetryWrite(RemoveOldKeys(PruneAllBackups(st)), key, data, outcome)

\* handleQuotaExceeded(key, data); outcome is what the retried setItem does
handleQuotaExceeded(st, key, data, outcome) ==
  RetryWrite(PruneAllBackups(RemoveOldKeys(st)), key, data, outcome)

\* a catch block that recovers from whatever was thrown
SaveCaughtRecoverAll(st, thrown, key, data, env) ==
  handleQuotaExceeded(st, key, data, env.retry)

\* the catch block of saveToLocalStorage
SaveCaught(st, thrown, key, data, env) ==
  IF thrown = "quota"
  THEN handleQuotaExceeded(st, key, data, env.retry)
  ELSE [ls |-> st.ls, ok |-> FALSE, events |-> <<>>, log |-> st.log]

\* the metadata write that follows the write of the key
WriteMetadata(st, key, data, t, env) ==
  IF env.meta = "ok"
  THEN [ls |-> SetItem(st.ls, Key(METADATA),
                       Stringify(JObj([lastSaved |-> t, version |-> "1.0.0"]))),
        ok |-> TRUE, events |-> <<>>,
        log |-> st.log \o <<LogSet("metadata", Key(METADATA), "ok")>>]
  ELSE SaveCaught(Logged(st, st.ls, <<LogSet("metadata", Key(METADATA), env.meta)>>),
                  env.meta, key, data, env)

\* localStorage.setItem(key, serialized) and what follows it in the try block
WritePrimary(st, key, data, t, env) ==
  IF env.primary = "ok"
  THEN WriteMetadata(Logged(st, SetItem(st.ls, Key(key), Stringify(data)),
                            <<LogSet("primary", Key(key), "ok")>>),
                     key, data, t, env)
  ELSE SaveCaught(Logged(st, st.ls, <<LogSet("primary", Key(key), env.primary)>>),
                  env.primary, key, data, env)

\* above 90% usage every backup of every key is removed before saving
SweepBackups(st, env) ==
  IF env.usage = "full" THEN DropOld(st, "sweep", SortDesc(AllBackups(st.ls))) ELSE st

\* a backup is written before notes or tags are overwritten
BackupFirst(st, key, data, t, env) ==
  IF key \in {NOTES, TAGS} THEN createBackup(st, key, data, t, env.backup) ELSE st

\* saveToLocalStorage(key, data) at time t.  env.usage is the level
\* getStorageUsage reports; env.backup, env.primary, env.meta and env.retry are
\* what the setItem of the backup, of the key, of the metadata and of the retry do.
\* The result is [ls, ok, events, log]: ok is the value returned, events the
\* 'storage-error' events dispatched.
saveToLocalStorage(l, key, data, t, env) ==
  WritePrimary(BackupFirst(SweepBackups([ls |-> l, log |-> <<>>], env), key, data, t, env),
               key, data, t, env)

\* the environments of one call of saveToLocalStorage(key, ...); a setItem the
\* call does not reach is given as "ok"
\* (createBackup and handleQuotaExceeded catch whatever their setItem throws, so
\* for these two one failure stands for both)
SaveEnvs(key) ==
  {e \in [usage : UsageLevels, backup : {"ok", "quota"}, primary : Outcomes,
          meta : Outcomes, retry : {"ok", "quota"}] :
     /\ key \notin {NOTES, TAGS} => e.backup = "ok"
     /\ e.primary # "ok" => e.meta = "ok"
     /\ (e.primary # "quota" /\ e.meta # "quota") => e.retry = "ok"}

\* ------------------------------------------------------------ validation
NoteFields == {"id", "title", "body", "tagIds", "createdAt", "updatedAt"}
TagFields == {"id", "name", "createdAt", "updatedAt"}
PreferenceFields == {"theme", "density", "tagFilterMode"}

\* validateData(data, key): typeof x.f === 'string' and Array.isArray(x.f) hold
\* of a field that is present, and fail for one that is missing
validateData(data, key) ==
  CASE key = NOTES ->
         data.t = "array" /\ \A i \in DOMAIN data.items : NoteFields \subseteq DOMAIN data.items[i]
    [] key = TAGS ->
         data.t = "array" /\ \A i \in DOMAIN data.items : TagFields \subseteq DOMAIN data.items[i]
    [] key = PREFERENCES ->
         data.t = "object" /\ PreferenceFields \subseteq DOMAIN data.fields
    [] OTHER -> TRUE

\* key.replace('notes-app-', '')
StripAppPrefix(key) ==
  CASE key = NOTES -> "data"
    [] key = TAGS -> "tags"
    [] key = PREFERENCES -> "prefs"
    [] OTHER -> key

\* the backup parses, has a data property and the data validates
BackupRestores(l, backupKey, key) ==
  /\ Parses(l[backupKey])
  /\ Parse(l[backupKey]).t = "object"
  /\ "data" \in DOMAIN Parse(l[backupKey]).fields
  /\ validateData(Parse(l[backupKey]).fields.data, key)

\* what a load returns: the storage after it, the value, the events dispatched
\* on the way, whether the value comes from a backup and whether the save of
\* that value returned true
Loaded(l, value, evs, recovered, persisted) ==
  [ls |-> l, value |-> value, events |-> evs, recovered |-> recovered,
   persisted |-> persisted]

\* the backup found is saved under the key (whatever the save returns) and returned
RestoreFrom(saved, data) == Loaded(saved.ls, data, saved.events, TRUE, saved.ok)

\* the first backup, newest first, that restores
FirstGood(l, backupKeys, key) ==
  LET good == {i \in DOMAIN backupKeys : BackupRestores(l, backupKeys[i], key)}
  IN IF good = {} THEN <<>> ELSE <<backupKeys[CHOOSE i \in good : \A j \in good : i <= j]>>

RecoverWith(l, found, key, defaultValue, t, env) ==
  IF found = <<>> THEN Loaded(l, defaultValue, <<>>, FALSE, FALSE)
  ELSE RestoreFrom(saveToLocalStorage(l, key, Parse(l[found[1]]).fields.data, t, env),
                   Parse(l[found[1]]).fields.data)

\* attemptDataRecovery(key, defaultValue)
attemptDataRecovery(l, key, defaultValue, t, env) ==
  RecoverWith(l, FirstGood(l, SortDesc(BackupsOf(l, StripAppPrefix(key))), key),
              key, defaultValue, t, env)

\* loadFromLocalStorage(key, defaultValue)
loadFromLocalStorage(l, key, defaultValue, t, env) ==
  IF Key(key) \notin DOMAIN l
  THEN Loaded(l, defaultValue, <<>>, FALSE, FALSE)
  ELSE IF ~Parses(l[Key(key)]) \/ ~validateData(Parse(l[Key(key)]), key)
       THEN attemptDataRecovery(l, key, defaultValue, t, env)
       ELSE Loaded(l, Parse(l[Key(key)]), <<>>, FALSE, FALSE)

\* ------------------------------------------------------------ AppProvider
\* the slice of the store a key mirrors, as the value handed to debouncedSave
SliceOf(state, key) ==
  CASE key = NOTES -> JArr(state.notes)
    [] key = TAGS -> JArr(state.tags)
    [] key = PREFERENCES -> JObj(state.preferences)

KeyOfSlice(slice) ==
  CASE slice = "notes" -> NOTES
    [] slice = "tags" -> TAGS
    [] slice = "preferences" -> PREFERENCES

\* the save effects, in the order AppProvider declares them
EffectOrder == <<"notes", "tags", "preferences">>

\* debouncedSave(key, data): clearTimeout of the one shared saveTimeoutRef,
\* then setTimeout
debouncedSave(tm, key, data) == <<[key |-> key, data |-> data]>>

RECURSIVE RunEffects(_, _, _, _)
\* the effects whose dependency changed identity run in declaration order
RunEffects(tm, state, touched, order) ==
  IF order = <<>> THEN tm
  ELSE LET k == KeyOfSlice(Head(order))
           tm1 == IF Head(order) \in touched
                  THEN debouncedSave(tm, k, SliceOf(state, k)) ELSE tm
       IN RunEffects(tm1, state, touched, Tail(order))

\* the caller-supplied default of each load of AppProvider
DefaultOf(key) ==
  CASE key = NOTES -> JArr(<<>>)
    [] key = TAGS -> JArr(<<>>)
    [] key = PREFERENCES -> JObj(defaultPreferences)

\* acc, what the loads so far returned, with one more
Collect(acc, key, r) ==
  [ls |-> r.ls, value |-> (key :> r.value) @@ acc.value,
   events |-> acc.events \o r.events,
   recovered |-> IF r.recovered THEN acc.recovered \cup {key} ELSE acc.recovered,
   persisted |-> IF r.persisted THEN acc.persisted \cup {key} ELSE acc.persisted]

RECURSIVE LoadAll(_, _, _, _)
\* the loads of AppProvider's render, one after the other
LoadAll(acc, keys, t, env) ==
  IF keys = <<>> THEN acc
  ELSE LoadAll(Collect(acc, Head(keys),
                       loadFromLocalStorage(acc.ls, Head(keys), DefaultOf(Head(keys)), t, env)),
               Tail(keys), t, env)

\* the state useReducer starts from, given what the loads returned
InitialState(value) ==
  [defaultState EXCEPT !.notes = value[NOTES].items,
                       !.tags = value[TAGS].items,
                       !.preferences = value[PREFERENCES].fields]

\* the mount effects: the three save effects run, and the last scheduled
\* replaces the others
Mounted(loads, state) ==
  [ls |-> loads.ls, store |-> state,
   timer |-> RunEffects(<<>>, state, {"notes", "tags", "preferences"}, EffectOrder),
   events |-> loads.events, recovered |-> loads.recovered,
   persisted |-> loads.persisted]

MountedFrom(loads) == Mounted(loads, InitialState(loads.value))

\* AppProvider's first render and its mount effects
MountResult(l, t, env) ==
  MountedFrom(LoadAll([ls |-> l, value |-> <<>>, events |-> <<>>, recovered |-> {},
                       persisted |-> {}],
                      <<NOTES, TAGS, PREFERENCES>>, t, env))

\* ------------------------------------------------------- inputs of the UI
\* NoteList: addNote({title: '', body: '', tagIds: [], pinned: false, archived: false})
NewNotePayload ==
  [title |-> "", body |-> "", tagIds |-> <<>>, pinned |-> FALSE, archived |-> FALSE]

TagIds(state) == {state.tags[i].id : i \in DOMAIN state.tags}

\* NoteEditor.toggleTag: the note's tagIds without tagId, or with it appended
ToggleTag(tagIds, tagId) ==
  IF tagId \in Range(tagIds)
  THEN SelectSeq(tagIds, LAMBDA x : x # tagId)
  ELSE Append(tagIds, tagId)

\* the UPDATE_NOTE actions NoteEditor.toggleTag dispatches for a note of the store
TagToggles(state) ==
  {[type |-> "UPDATE_NOTE", id |-> state.notes[i].id,
    payload |-> [tagIds |-> ToggleTag(state.notes[i].tagIds, tg)]] :
      i \in DOMAIN state.notes, tg \in TagIds(state)}

\* TagFilter.handleModeToggle
ModeToggle(state) ==
  [tagFilterMode |-> IF state.preferences.tagFilterMode = "ANY" THEN "ALL" ELSE "ANY"]

\* ------------------------------------------------------------- actions
\* dispatch(action) in a mounted AppProvider: the reducer, then the effects
Reduced(action) ==
  /\ mounted
  /\ LET next == appReducer(store, action, now, uuid + 1)
         touched == Touched(store, action)
     IN /\ store' = next
        /\ timer' = RunEffects(timer, next, touched, EffectOrder)
        /\ dirty' = dirty \cup {KeyOfSlice(x) : x \in touched}
  /\ uuid' = IF action.type \in {"ADD_NOTE", "ADD_TAG"} THEN uuid + 1 ELSE uuid
  /\ imported' = (imported \/ action.type = "IMPORT_DATA")
  /\ lastStep' = action.type
  /\ events' = <<>>
  /\ lastSave' = <<>>
  /\ before' = [store |-> store, ls |-> ls]
  /\ UNCHANGED <<now, mounted, failedKeys, hook>>

Dispatch(action) ==
  /\ Reduced(action)
  /\ ls' = ls
  /\ ret' = ret

AddNote == uuid < MaxIds /\ Dispatch([type |-> "ADD_NOTE", payload |-> NewNotePayload])

UpdateNote == \E a \in TagToggles(store) : Dispatch(a)

AddTag ==
  uuid < MaxIds /\ Dispatch([type |-> "ADD_TAG", payload |-> [name |-> "x", color |-> "hsl"]])

DeleteTag == \E id \in TagIds(store) : Dispatch([type |-> "DELETE_TAG", id |-> id])

UpdatePreferences == Dispatch([type |-> "UPDATE_PREFERENCES", payload |-> ModeToggle(store)])

\* the callback debouncedSave handed to setTimeout, given what
\* saveToLocalStorage returned: a failure is reported with one more event
Saved(key, data, r) ==
  /\ ls' = r.ls
  /\ events' = r.events \o (IF r.ok THEN <<>> ELSE <<[key |-> key, data |-> data]>>)
  /\ lastSave' = <<[key |-> key, data |-> data, ok |-> r.ok, log |-> r.log]>>
  /\ failedKeys' = IF r.ok THEN failedKeys \ {key} ELSE failedKeys \cup {key}
  /\ dirty' = dirty \ {key}

\* a timer callback that falls back to the default state when the save fails
FireReloading ==
  /\ mounted
  /\ timer # <<>>
  /\ now < MaxTime
  /\ now' = now + 1
  /\ \E env \in SaveEnvs(timer[1].key) :
       /\ Saved(timer[1].key, timer[1].data,
                saveToLocalStorage(ls, timer[1].key, timer[1].data, now + 1, env))
       /\ store' = IF saveToLocalStorage(ls, timer[1].key, timer[1].data, now + 1, env).ok
                   THEN store ELSE defaultState
  /\ timer' = <<>>
  /\ lastStep' = "fire"
  /\ before' = [store |-> store, ls |-> ls]
  /\ UNCHANGED <<uuid, mounted, ret, imported, hook>>

\* the timer debouncedSave set fires.  The 300ms have passed: the clock reads
\* later than at every dispatch before it
Fire ==
  /\ mounted
  /\ timer # <<>>
  /\ now < MaxTime
  /\ now' = now + 1
  /\ \E env \in SaveEnvs(timer[1].key) :
       Saved(timer[1].key, timer[1].data,
             saveToLocalStorage(ls, timer[1].key, timer[1].data, now + 1, env))
  /\ timer' = <<>>
  /\ lastStep' = "fire"
  /\ before' = [store |-> store, ls |-> ls]
  /\ UNCHANGED <<store, uuid, mounted, ret, imported, hook>>

\* the variables once AppProvider has mounted with result m at time t
MountedAt(m, t) ==
  /\ store = m.store
  /\ timer = m.timer
  /\ ls = m.ls
  /\ events = m.events
  /\ now = t
  /\ uuid = 0
  /\ mounted = TRUE
  /\ ret = <<>>
  /\ lastStep = "mount"
  /\ lastSave = <<>>
  /\ imported = FALSE
  /\ dirty = {}
  /\ failedKeys = {}
  /\ before = [store |-> m.store, ls |-> m.ls]
  /\ hook = NoHook

\* a save in which every setItem succeeds
CalmEnv == [usage |-> "low", backup |-> "ok", primary |-> "ok", meta |-> "ok", retry |-> "ok"]

\* a first visit: AppProvider has mounted over an empty localStorage
Init == MountedAt(MountResult(EmptyStorage, MaxTime - MaxFires, CalmEnv), MaxTime - MaxFires)

Next ==
  \/ AddNote
  \/ UpdateNote
  \/ AddTag
  \/ DeleteTag
  \/ UpdatePreferences
  \/ Fire

\* AppProvider on a first visit: dispatches of the UI and the debounce timer
Spec == Init /\ [][Next]_vars

\* ------------------------------------------------ the store on its own
\* NoteEditor.handleDelete, for whichever note is selected
DeleteNote ==
  \E i \in DOMAIN store.notes : Dispatch([type |-> "DELETE_NOTE", id |-> store.notes[i].id])

\* data handed to the importData action creator: notes and tags that agree, and
\* a note carrying the id of a tag that is not imported
ImportPayloads ==
  {[notes |-> <<[id |-> MaxIds + 1, title |-> "", body |-> "", tagIds |-> <<MaxIds + 2>>,
                 pinned |-> FALSE, archived |-> FALSE, createdAt |-> 1, updatedAt |-> 1]>>,
    tags |-> tags, preferences |-> defaultPreferences] :
      tags \in {<<>>, <<[id |-> MaxIds + 2, name |-> "x", color |-> "hsl",
                        createdAt |-> 1, updatedAt |-> 1]>>}}

ImportData == \E data \in ImportPayloads : Dispatch([type |-> "IMPORT_DATA", payload |-> data])

NextStore ==
  \/ AddNote
  \/ UpdateNote
  \/ DeleteNote
  \/ AddTag
  \/ DeleteTag
  \/ ImportData

\* the reducer driven by the action creators, no timer firing
SpecStore == Init /\ [][NextStore]_vars

\* ------------------------------------------- notes selected and deleted
\* a dispatch whose action is kept for the properties to read
Traced(action) == Reduced(action) /\ ret' = <<action>> /\ UNCHANGED ls

\* the ids of the notes a default view shows
ShownIds(state) ==
  {state.notes[i].id :
     i \in {j \in DOMAIN state.notes :
              \/ "deletedAt" \notin DOMAIN state.notes[j]
              \/ state.notes[j].deletedAt \in {Null, Undefined}}}

\* NoteEditor.handleDelete and the restore of a deleted note
DeleteNoteById ==
  \E i \in DOMAIN store.notes : Traced([type |-> "DELETE_NOTE", id |-> store.notes[i].id])

RestoreNoteById ==
  \E i \in DOMAIN store.notes : Traced([type |-> "RESTORE_NOTE", id |-> store.notes[i].id])

\* NoteList.handleNoteClick on a note of the list, and selectNote(null)
SelectNote ==
  \E id \in ShownIds(store) \cup {Null} : Traced([type |-> "SELECT_NOTE", id |-> id])

NextSelect ==
  \/ AddNote
  \/ DeleteNoteById
  \/ RestoreNoteById
  \/ SelectNote
  \/ ImportData

\* the reducer driven by the list, the editor and an import
SpecSelect == Init /\ [][NextSelect]_vars

NextKeep ==
  \/ AddNote
  \/ AddTag
  \/ UpdateNote
  \/ DeleteTag
  \/ DeleteNoteById
  \/ RestoreNoteById
  \/ SelectNote

\* the reducer driven by the list and the editor, tags included
SpecKeep == Init /\ [][NextKeep]_vars

\* ---------------------------------------------- the tag filter of the UI
\* the UPDATE_FILTERS actions TagFilter.handleTagClick dispatches: the clicked
\* tag is one of the tags shown, and leaves filters.tags or is appended to it
TagClicks(state) ==
  {[type |-> "UPDATE_FILTERS", payload |-> [tags |-> ToggleTag(state.filters.tags, tg)]] :
     tg \in TagIds(state)}

SelectFilterTag == \E a \in TagClicks(store) : Dispatch(a)

NextFilters ==
  \/ AddNote
  \/ UpdateNote
  \/ AddTag
  \/ DeleteTag
  \/ SelectFilterTag
  \/ UpdatePreferences

\* the reducer driven by TagFilter and NoteEditor
SpecFilters == Init /\ [][NextFilters]_vars

\* ------------------------------------- actions on what is not persisted
\* the storage after AppProvider has rendered once more: the body of the
\* component runs its three loads on every render
RenderLoads(l, t) ==
  LoadAll([ls |-> l, value |-> <<>>, events |-> <<>>, recovered |-> {}, persisted |-> {}],
          <<NOTES, TAGS, PREFERENCES>>, t, CalmEnv).ls

\* a dispatch and the render that follows it
Rendered(action) ==
  /\ Reduced(action)
  /\ ls' = RenderLoads(ls, now)
  /\ ret' = ret

\* SearchBar: the text typed, or the field cleared
TypeSearch == \E text \in {"", "a"} : Rendered([type |-> "UPDATE_FILTERS", payload |-> [search |-> text]])

\* NoteList.handleNoteClick
ClickNote == \E id \in ShownIds(store) : Rendered([type |-> "SELECT_NOTE", id |-> id])

\* the setEditing action creator
SetEditing == \E b \in BOOLEAN : Rendered([type |-> "SET_EDITING", isEditing |-> b])

NextTransient ==
  \/ AddNote
  \/ Fire
  \/ TypeSearch
  \/ ClickNote
  \/ SetEditing

\* AppProvider while the list is searched, filtered and clicked
SpecTransient == Init /\ [][NextTransient]_vars

\* ------------------------------------------- preferences set through the API
\* the changes the updatePreferences action creator accepts, one field at a time
PreferenceChanges ==
  {[theme |-> x] : x \in {"light", "dark", "system"}}
    \cup {[density |-> x] : x \in {"comfortable", "compact"}}
    \cup {[tagFilterMode |-> x] : x \in {"ANY", "ALL"}}

\* updatePreferences(changes), whether or not changes differs from what is set
SetPreferences ==
  \E changes \in PreferenceChanges :
    Dispatch([type |-> "UPDATE_PREFERENCES", payload |-> changes])

NextPrefs ==
  \/ SetPreferences
  \/ Fire

\* AppProvider while only the preferences are set
SpecPrefs == Init /\ [][NextPrefs]_vars

\* ------------------------------------------- notes edited through the API
\* updateNote(id, changes) with changes that repeat what the note holds: its
\* title, or a new array holding its tag ids
ResendNote ==
  \E i \in DOMAIN store.notes :
    \/ Dispatch([type |-> "UPDATE_NOTE", id |-> store.notes[i].id,
                 payload |-> [title |-> store.notes[i].title]])
    \/ Dispatch([type |-> "UPDATE_NOTE", id |-> store.notes[i].id,
                 payload |-> [tagIds |-> store.notes[i].tagIds]])

\* updateNote(id, {createdAt}): Partial<Omit<Note, 'id'>> admits every field
\* but the id, and the stamp handed in is one the clock has yet to reach
RestampNote ==
  \E i \in DOMAIN store.notes :
    Dispatch([type |-> "UPDATE_NOTE", id |-> store.notes[i].id,
              payload |-> [createdAt |-> MaxTime]])

\* updateNote for an id no note has
UpdateMissingNote ==
  Dispatch([type |-> "UPDATE_NOTE", id |-> MaxIds + 1, payload |-> [title |-> "t"]])

RestoreNote ==
  \E i \in DOMAIN store.notes : Dispatch([type |-> "RESTORE_NOTE", id |-> store.notes[i].id])

\* time passes between two dispatches: new Date() reads a later instant
Tick ==
  /\ now < MaxTime
  /\ now' = now + 1
  /\ lastStep' = "tick"
  /\ UNCHANGED <<store, uuid, timer, ls, events, mounted, ret, lastSave, imported, dirty,
                 failedKeys, before, hook>>

NextNotes ==
  \/ AddNote
  \/ AddTag
  \/ UpdateNote
  \/ ResendNote
  \/ RestampNote
  \/ UpdateMissingNote
  \/ DeleteNote
  \/ RestoreNote
  \/ Tick

\* the reducer's note actions under a clock that moves on
SpecNotes == Init /\ [][NextNotes]_vars

NextIds ==
  \/ AddNote
  \/ ResendNote
  \/ RestampNote
  \/ DeleteNote
  \/ RestoreNote

\* the four note actions of the reducer, dispatched within one instant
SpecIds == Init /\ [][NextIds]_vars

\* --------------------------------------------- what a browser may hold
\* the stamps of backups written before this visit
OldStamps == 1..(MaxTime - 2)

\* a note and a tag of an earlier visit, last saved at time s; their ids are
\* none generateUUID issues in this one
SavedNote(s) ==
  [id |-> MaxIds + 1, title |-> "", body |-> "", tagIds |-> <<>>, pinned |-> FALSE,
   archived |-> FALSE, createdAt |-> 1, updatedAt |-> s]
SavedTag(s) == [id |-> MaxIds + 2, name |-> "x", color |-> "hsl", createdAt |-> 1, updatedAt |-> s]

\* the value saved under a key at time s
SavedData(key, s) ==
  CASE key = NOTES -> JArr(<<SavedNote(s)>>)
    [] key = TAGS -> JArr(<<SavedTag(s)>>)
    [] OTHER -> JObj(defaultPreferences)

\* a value that parses and that validateData rejects: an element without a title
\* or a name
InvalidData(key) == JArr(<<[id |-> MaxIds + 1, createdAt |-> 1, updatedAt |-> 1]>>)

\* the string createBackup stores
BackupFile(key, s, data) ==
  Stringify(JObj([timestamp |-> s, data |-> data, originalKey |-> key]))

\* what a stored string can be
Kinds == {"none", "good", "corrupt", "invalid"}

FileOf(kind, good) ==
  CASE kind = "good" -> good
    [] kind = "invalid" -> Stringify(InvalidData(NOTES))
    [] OTHER -> Corrupt

\* the backups `notes-backup-${name}-${s}` of key, one per stamp s with
\* kinds[s] # "none"
BackupFiles(name, key, kinds) ==
  [k \in {BackupKey(name, x) : x \in {y \in DOMAIN kinds : kinds[y] # "none"}} |->
     FileOf(kinds[k.ts], BackupFile(key, k.ts, SavedData(key, k.ts)))]

\* the value under the key itself
PrimaryFile(key, kind) ==
  IF kind = "none" THEN EmptyStorage
  ELSE (Key(key) :> FileOf(kind, Stringify(SavedData(key, 1))))

\* the keys of the scheme of utils/storage.ts
LegacyKeys == <<"app.notes.v1", "app.tags.v1", "app.preferences.v1", "app.meta.v1">>

LegacyFiles(names) == [k \in {Key(n) : n \in names} |-> Stringify(JArr(<<>>))]

\* the variables of AppProvider before it renders, over the storage l at time t
AppIdle(l, t) ==
  /\ store = defaultState
  /\ timer = <<>>
  /\ ls = l
  /\ events = <<>>
  /\ now = t
  /\ uuid = 0
  /\ mounted = FALSE
  /\ ret = <<>>
  /\ lastStep = "start"
  /\ lastSave = <<>>
  /\ imported = FALSE
  /\ dirty = {}
  /\ failedKeys = {}
  /\ before = [store |-> defaultState, ls |-> l]

\* no AppProvider has rendered and no component uses useLocalStorage
Unmounted(l, t) == AppIdle(l, t) /\ hook = NoHook

\* the variables change as AppProvider's first render and mount effects say
MountStep(m) ==
  /\ store' = m.store
  /\ timer' = m.timer
  /\ ls' = m.ls
  /\ events' = m.events
  /\ ret' = <<[op |-> "mount", recovered |-> m.recovered, persisted |-> m.persisted]>>
  /\ mounted' = TRUE
  /\ lastStep' = "mount"
  /\ lastSave' = <<>>
  /\ before' = [store |-> store, ls |-> ls]
  /\ UNCHANGED <<now, uuid, imported, dirty, failedKeys, hook>>

\* AppProvider renders for the first time; env is what the setItem calls of a
\* recovery's save do
Mount ==
  /\ ~mounted
  /\ \E env \in SaveEnvs(NOTES) : MountStep(MountResult(ls, now, env))

\* ------------------------------------------- saving on a returning visit
\* backups of earlier visits: the newest n, n at most what createBackup keeps
StampSets == {{s \in OldStamps : s > Cardinality(OldStamps) - n} : n \in 0..BackupsKept}

LegacySets == {{}, {"app.notes.v1"}, Range(LegacyKeys)}

KindsOf(stamps) == [s \in OldStamps |-> IF s \in stamps THEN "good" ELSE "none"]

\* what earlier visits left: legacy keys, the notes and the tags with the
\* backups made when they were saved
ReturningStorage(legacy, ns, ts) ==
  LegacyFiles(legacy)
    @@ BackupFiles(NOTES, NOTES, KindsOf(ns)) @@ BackupFiles(TAGS, TAGS, KindsOf(ts))
    @@ PrimaryFile(NOTES, IF ns = {} THEN "none" ELSE "good")
    @@ PrimaryFile(TAGS, IF ts = {} THEN "none" ELSE "good")

InitSave ==
  \E legacy \in LegacySets, ns \in StampSets, ts \in StampSets :
    MountedAt(MountResult(ReturningStorage(legacy, ns, ts), MaxTime - 1, CalmEnv), MaxTime - 1)

NextSave ==
  \/ AddNote
  \/ AddTag
  \/ Fire

\* AppProvider on a returning visit: one debounced save over what is stored
SpecSave == InitSave /\ [][NextSave]_vars

\* ------------------------------------------- loading what a browser holds
\* the notes key and its backups, under the name createBackup writes and under
\* the name attemptDataRecovery searches, each missing, good, corrupt or invalid
NotesFiles(primary, written, searched) ==
  PrimaryFile(NOTES, primary)
    @@ BackupFiles(NOTES, NOTES, written)
    @@ BackupFiles(StripAppPrefix(NOTES), NOTES, searched)

\* the tags key: missing; or corrupt with one backup, written or searched
TagsFiles ==
  {EmptyStorage,
   PrimaryFile(TAGS, "corrupt") @@ BackupFiles(TAGS, TAGS, KindsOf({1})),
   PrimaryFile(TAGS, "corrupt") @@ BackupFiles(StripAppPrefix(TAGS), TAGS, KindsOf({1}))}

BackupKinds == [OldStamps -> Kinds \ {"invalid"}]

InitLoad ==
  \E primary \in Kinds, written \in BackupKinds, searched \in BackupKinds, tf \in TagsFiles :
    Unmounted(NotesFiles(primary, written, searched) @@ tf, MaxTime - 1)

NextLoad == Mount

\* AppProvider's first render over a storage that may be damaged
SpecLoad == InitLoad /\ [][NextLoad]_vars

\* ------------------------------------- loading what validateData must judge
\* stored elements: a note without pinned and archived, a note without title,
\* body and tagIds, a tag without a name
UnflaggedNote ==
  [id |-> MaxIds + 2, title |-> "", body |-> "", tagIds |-> <<>>, createdAt |-> 1,
   updatedAt |-> 2]
UntitledNote == [id |-> MaxIds + 2, createdAt |-> 1, updatedAt |-> 2]
UnnamedTag == [id |-> MaxIds + 1, createdAt |-> 1, updatedAt |-> 2]

\* the notes and the tags a stored string may hold; the elements differ from
\* those of every backup
GateNotes ==
  {<<SavedNote(2)>>, <<SavedNote(2), UntitledNote>>, <<UntitledNote, SavedNote(2)>>,
   <<UnflaggedNote>>, <<SavedNote(2), UnflaggedNote>>}
GateTags == {<<SavedTag(2)>>, <<SavedTag(2), UnnamedTag>>}

\* stored preferences: valid ones, a theme and a density outside the unions of
\* Preferences, and an object without density
GatePreferences ==
  {JObj(defaultPreferences),
   JObj([defaultPreferences EXCEPT !.theme = "dark", !.tagFilterMode = "ALL"]),
   JObj([defaultPreferences EXCEPT !.theme = "blue"]),
   JObj([defaultPreferences EXCEPT !.density = "huge"]),
   JObj([theme |-> "light", tagFilterMode |-> "ANY"])}

\* localStorage with the three keys of AppProvider written, and for the notes
\* and the tags the backups attemptDataRecovery looks for
GateStorage(notes, tags, prefs, nb, tb) ==
  [k \in {Key(NOTES)} |-> Stringify(JArr(notes))]
    @@ [k \in {Key(TAGS)} |-> Stringify(JArr(tags))]
    @@ [k \in {Key(PREFERENCES)} |-> Stringify(prefs)]
    @@ BackupFiles(StripAppPrefix(NOTES), NOTES, KindsOf(nb))
    @@ BackupFiles(StripAppPrefix(TAGS), TAGS, KindsOf(tb))

InitGate ==
  \E notes \in GateNotes, tags \in GateTags, prefs \in GatePreferences,
     nb \in {{}, {1}}, tb \in {{}, {1}} :
    Unmounted(GateStorage(notes, tags, prefs, nb, tb), MaxTime - 1)

NextGate == Mount

\* AppProvider's first render over stored values with elements and fields that
\* do not fit the types
SpecGate == InitGate /\ [][NextGate]_vars

\* ------------------------------------------------------ utils/storage.ts
isValidNote(note) ==
  {"id", "title", "body", "tagIds", "pinned", "archived", "createdAt", "updatedAt"}
    \subseteq DOMAIN note

isValidTag(tag) == {"id", "name", "createdAt", "updatedAt"} \subseteq DOMAIN tag

isValidPreferences(prefs) ==
  /\ prefs.t = "object"
  /\ {"theme", "density", "tagFilterMode"} \subseteq DOMAIN prefs.fields
  /\ prefs.fields.theme \in {"light", "dark", "system"}
  /\ prefs.fields.density \in {"comfortable", "compact"}
  /\ prefs.fields.tagFilterMode \in {"ANY", "ALL"}

isValidAppData(data) ==
  /\ data.t = "object"
  /\ {"version", "notes", "tags", "preferences"} \subseteq DOMAIN data.fields
  /\ data.fields.notes.t = "array"
  /\ \A i \in DOMAIN data.fields.notes.items : isValidNote(data.fields.notes.items[i])
  /\ data.fields.tags.t = "array"
  /\ \A i \in DOMAIN data.fields.tags.items : isValidTag(data.fields.tags.items[i])
  /\ isValidPreferences(data.fields.preferences)

\* what importData throws, whatever made it fail
Rejected(l) == [ls |-> l, ok |-> FALSE, error |-> "parse_error"]

RECURSIVE WriteAll(_, _, _)
\* the awaited setStorageItem calls, in order; outs[i] is what the i-th setItem
\* does, and the first that throws ends the import
WriteAll(l, writes, outs) ==
  IF writes = <<>> THEN [ls |-> l, ok |-> TRUE, error |-> ""]
  ELSE IF Head(outs) # "ok" THEN Rejected(l)
       ELSE WriteAll(SetItem(l, Key(Head(writes).key), Stringify(Head(writes).value)),
                     Tail(writes), Tail(outs))

\* the four writes of importData
ImportWrites(data, t) ==
  <<[key |-> LegacyKeys[1], value |-> data.fields.notes],
    [key |-> LegacyKeys[2], value |-> data.fields.tags],
    [key |-> LegacyKeys[3], value |-> data.fields.preferences],
    [key |-> LegacyKeys[4], value |-> JObj([lastBackupAt |-> t])]>>

\* importData without its check of the version
importDataAnyVersion(l, json, t, outs) ==
  IF ~Parses(json) THEN Rejected(l)
  ELSE IF ~isValidAppData(Parse(json)) THEN Rejected(l)
  ELSE WriteAll(l, ImportWrites(Parse(json), t), outs)

\* importData(json) at time t over the storage l
importData(l, json, t, outs) ==
  IF ~Parses(json) THEN Rejected(l)
  ELSE IF ~isValidAppData(Parse(json)) THEN Rejected(l)
  ELSE IF Parse(json).fields.version # 1 THEN Rejected(l)
  ELSE WriteAll(l, ImportWrites(Parse(json), t), outs)

\* an export that leaves the tags out
ExportedDataNoTags(l) ==
  JObj([version |-> 1,
        notes |-> IF Key(LegacyKeys[1]) \in DOMAIN l THEN Parse(l[Key(LegacyKeys[1])])
                  ELSE JArr(<<>>),
        tags |-> JArr(<<>>),
        preferences |-> IF Key(LegacyKeys[3]) \in DOMAIN l THEN Parse(l[Key(LegacyKeys[3])])
                        ELSE JObj(defaultPreferences)])

\* getStorageItem(key) ?? fallback, for a key whose stored string parses
ItemOr(l, name, fallback) ==
  IF Key(name) \in DOMAIN l THEN Parse(l[Key(name)]) ELSE fallback

\* the object exportData assembles
ExportedData(l) ==
  JObj([version |-> 1,
        notes |-> ItemOr(l, LegacyKeys[1], JArr(<<>>)),
        tags |-> ItemOr(l, LegacyKeys[2], JArr(<<>>)),
        preferences |-> ItemOr(l, LegacyKeys[3], JObj(defaultPreferences))])

\* exportData() over the storage l
exportData(l) ==
  IF \E i \in 1..3 : Key(LegacyKeys[i]) \in DOMAIN l /\ ~Parses(l[Key(LegacyKeys[i])])
  THEN [ok |-> FALSE, error |-> "parse_error"]
  ELSE IF ~isValidAppData(ExportedData(l)) THEN [ok |-> FALSE, error |-> "parse_error"]
       ELSE [ok |-> TRUE, json |-> Stringify(ExportedData(l))]

\* an export file
Envelope(version, notes, tags, preferences) ==
  Stringify(JObj([version |-> version, notes |-> JArr(notes), tags |-> JArr(tags),
                  preferences |-> JObj(preferences)]))

\* the texts handed to importData: not JSON; two exports of version 1; an
\* export of version 2; a note without a title; a theme that does not exist
ImportInputs ==
  {Corrupt,
   Envelope(1, <<>>, <<>>, defaultPreferences),
   Envelope(1, <<SavedNote(1)>>, <<SavedTag(1)>>, [defaultPreferences EXCEPT !.theme = "dark"]),
   Envelope(2, <<SavedNote(1)>>, <<SavedTag(1)>>, defaultPreferences),
   Envelope(1, <<[id |-> MaxIds + 1, body |-> ""]>>, <<>>, defaultPreferences),
   Envelope(1, <<>>, <<>>, [defaultPreferences EXCEPT !.theme = "blue"])}

\* what the four setItem calls of one import do: all succeed, or one of them
\* is the first to fail
ImportOutcomes ==
  {outs \in [1..4 -> Outcomes] :
     \A i \in 1..4 : outs[i] # "ok" => \A j \in (i + 1)..4 : outs[j] = "ok"}

\* importData has returned or thrown r
Imported(json, r) ==
  /\ ls' = r.ls
  /\ ret' = <<[op |-> "importData", json |-> json, ok |-> r.ok, error |-> r.error]>>

CallImportData ==
  /\ \E json \in ImportInputs, outs \in ImportOutcomes :
       Imported(json, importData(ls, json, now, outs))
  /\ lastStep' = "importData"
  /\ before' = [store |-> store, ls |-> ls]
  /\ UNCHANGED <<store, now, uuid, timer, events, mounted, lastSave, imported, dirty,
                 failedKeys, hook>>

CallExportData ==
  /\ ret' = <<Merge([op |-> "exportData"], exportData(ls))>>
  /\ lastStep' = "exportData"
  /\ before' = [store |-> store, ls |-> ls]
  /\ UNCHANGED <<store, now, uuid, timer, ls, events, mounted, lastSave, imported, dirty,
                 failedKeys, hook>>

InitImport == Unmounted(EmptyStorage, 1)

NextImport ==
  \/ CallImportData
  \/ CallExportData

\* the import and export of utils/storage.ts, called in any order
SpecImport == InitImport /\ [][NextImport]_vars

\* ------------------------------------------- an export handed to importData
\* two notes and two tags an earlier import stored
OtherNote == Merge(SavedNote(2), [id |-> MaxIds + 2, title |-> "t", deletedAt |-> 2])
OtherTag == [id |-> MaxIds + 1, name |-> "y", createdAt |-> 1, updatedAt |-> 2]

StoredNoteLists ==
  {<<>>, <<SavedNote(1)>>, <<SavedNote(1), OtherNote>>, <<OtherNote, SavedNote(1)>>}
StoredTagLists == {<<>>, <<SavedTag(1)>>, <<SavedTag(1), OtherTag>>, <<OtherTag, SavedTag(1)>>}

\* the preferences a stored file may hold: every valid value, and a theme that
\* does not exist
StoredPreferences ==
  [theme : {"light", "dark", "system", "blue"}, density : {"comfortable", "compact"},
   tagFilterMode : {"ANY", "ALL"}]

\* localStorage holding value under the key name, or nothing if absent
LegacyFile(name, absent, value) ==
  IF absent THEN EmptyStorage ELSE [k \in {Key(name)} |-> Stringify(value)]

\* the first setItem that fails ends importData, so every call made succeeded
AllWritten == [i \in 1..4 |-> "ok"]

\* importData(await exportData()), with a storage that takes the four writes
CallRoundTrip ==
  /\ exportData(ls).ok
  /\ Imported(exportData(ls).json, importData(ls, exportData(ls).json, now, AllWritten))
  /\ lastStep' = "roundTrip"
  /\ before' = [store |-> store, ls |-> ls]
  /\ UNCHANGED <<store, now, uuid, timer, events, mounted, lastSave, imported, dirty,
                 failedKeys, hook>>

\* the keys of utils/storage.ts as earlier imports may have left them
InitRoundTrip ==
  \E notes \in StoredNoteLists, tags \in StoredTagLists, prefs \in StoredPreferences,
     absent \in SUBSET {1, 2, 3} :
    Unmounted(LegacyFile(LegacyKeys[1], 1 \in absent, JArr(notes))
                @@ LegacyFile(LegacyKeys[2], 2 \in absent, JArr(tags))
                @@ LegacyFile(LegacyKeys[3], 3 \in absent, JObj(prefs)), 1)

NextRoundTrip ==
  \/ CallExportData
  \/ CallRoundTrip

\* exportData, and importData applied to what it returned
SpecRoundTrip == InitRoundTrip /\ [][NextRoundTrip]_vars

\* ------------------------------------- an export beside a mounted AppProvider
NextExport ==
  \/ AddNote
  \/ AddTag
  \/ UpdatePreferences
  \/ Fire
  \/ CallExportData

\* AppProvider persisting its store while exportData of utils/storage.ts is
\* called over the same localStorage
SpecExport == Init /\ [][NextExport]_vars

\* ------------------------------------------------ StorageUtils.importData
\* one saveToLocalStorage of StorageUtils.importData has returned r
SaveStep(acc, r) == [ls |-> r.ls, events |-> acc.events \o r.events]

\* if (Array.isArray(notes)) saveToLocalStorage(...), and likewise for tags;
\* if (preferences) saveToLocalStorage(...)
SaveIfGiven(acc, data, field, key, t, env) ==
  IF /\ field \in DOMAIN data.fields
     /\ field # "preferences" => data.fields[field].t = "array"
  THEN SaveStep(acc, saveToLocalStorage(acc.ls, key, data.fields[field], t, env))
  ELSE acc

\* StorageUtils.importData(jsonString) at time t over the storage l: [ls, events]
\* after it, and ok, the value returned
StorageUtilsImportData(l, json, t, env) ==
  IF ~Parses(json) \/ "data" \notin DOMAIN Parse(json).fields
  THEN [ls |-> l, events |-> <<>>, ok |-> FALSE]
  ELSE Merge(SaveIfGiven(SaveIfGiven(SaveIfGiven([ls |-> l, events |-> <<>>],
                                                 Parse(json).fields.data, "notes", NOTES, t, env),
                                     Parse(json).fields.data, "tags", TAGS, t, env),
                         Parse(json).fields.data, "preferences", PREFERENCES, t, env),
             [ok |-> TRUE])

\* what StorageUtils.exportData returns for the given notes, tags and preferences
Wrapped(notes, tags, preferences) ==
  Stringify(JObj([version |-> "1.0.0", exportDate |-> 1,
                  data |-> JObj([notes |-> JArr(notes), tags |-> JArr(tags),
                                 preferences |-> JObj(preferences)])]))

\* the texts handed to StorageUtils.importData: not JSON; an export; exports
\* edited to hold a note without a title and a theme that does not exist; one
\* whose data has only notes
WrappedInputs ==
  {Corrupt,
   Wrapped(<<SavedNote(1)>>, <<SavedTag(1)>>, defaultPreferences),
   Wrapped(<<UntitledNote>>, <<>>, defaultPreferences),
   Wrapped(<<>>, <<>>, [defaultPreferences EXCEPT !.theme = "blue"]),
   Stringify(JObj([version |-> "1.0.0", exportDate |-> 1,
                   data |-> JObj([notes |-> JArr(<<SavedNote(1)>>)])]))}

\* StorageUtils.importData has returned r
StorageUtilsImported(json, r) ==
  /\ ls' = r.ls
  /\ events' = r.events
  /\ ret' = <<[op |-> "StorageUtils.importData", json |-> json, ok |-> r.ok]>>

\* StorageUtils.importData is handed one of its own exports, or an export of
\* utils/storage.ts, at an instant later than every call before it
CallStorageUtilsImport ==
  /\ now < MaxTime
  /\ now' = now + 1
  /\ \E env \in SaveEnvs(NOTES) :
       \/ \E json \in WrappedInputs :
            StorageUtilsImported(json, StorageUtilsImportData(ls, json, now, env))
       \/ \E json \in ImportInputs :
            StorageUtilsImported(json, StorageUtilsImportData(ls, json, now, env))
  /\ lastStep' = "StorageUtils.importData"
  /\ before' = [store |-> store, ls |-> ls]
  /\ UNCHANGED <<store, uuid, timer, mounted, lastSave, imported, dirty, failedKeys, hook>>

NextStorageUtils == CallStorageUtilsImport

\* imports through StorageUtils, one after the other, into an empty localStorage
InitStorageUtils == Unmounted(EmptyStorage, MaxTime - MaxFires)

SpecStorageUtils == InitStorageUtils /\ [][NextStorageUtils]_vars

\* ------------------------------------------------------- useLocalStorage
isNote(value) ==
  {"id", "title", "body", "tagIds", "pinned", "archived", "createdAt", "updatedAt"}
    \subseteq DOMAIN value

isTag(value) == {"id", "name", "createdAt", "updatedAt"} \subseteq DOMAIN value

isPreferences(value) ==
  value.t = "object" /\ {"theme", "density", "tagFilterMode"} \subseteq DOMAIN value.fields

\* the type-specific validation of handleStorageChange
HookValid(key, item) ==
  CASE key = LegacyKeys[1] ->
         item.t = "array" /\ \A i \in DOMAIN item.items : isNote(item.items[i])
    [] key = LegacyKeys[2] ->
         item.t = "array" /\ \A i \in DOMAIN item.items : isTag(item.items[i])
    [] key = LegacyKeys[3] -> isPreferences(item)
    [] OTHER -> TRUE

\* a handler that takes whatever item getStorageItem returned
SyncFromUnchecked(h, key, item) == [h EXCEPT !.state = item, !.error = FALSE]

\* what handleStorageChange does once getStorageItem has returned item
SyncFrom(h, key, item) ==
  IF HookValid(key, item) THEN [h EXCEPT !.state = item, !.error = FALSE] ELSE h

\* a handler that leaves the state alone while a local write is pending
handleStorageChangeKeepLocal(h, l, e) ==
  IF e.key # h.key \/ e.removed \/ Key(h.key) \notin DOMAIN l \/ h.pending # <<>> THEN h
  ELSE IF ~Parses(l[Key(h.key)]) THEN [h EXCEPT !.error = TRUE]
  ELSE SyncFrom(h, h.key, Parse(l[Key(h.key)]))

\* handleStorageChange(e) of the hook h over the storage l: the event must be
\* for the hook's key with a newValue, getItem returns null for a missing key
\* and throws on a string that does not parse
handleStorageChange(h, l, e) ==
  IF e.key # h.key \/ e.removed \/ Key(h.key) \notin DOMAIN l THEN h
  ELSE IF ~Parses(l[Key(h.key)]) THEN [h EXCEPT !.error = TRUE]
  ELSE SyncFrom(h, h.key, Parse(l[Key(h.key)]))

\* setValue(value): skipped if the value serializes as the state does, else
\* the state is set and the save scheduled in place of the pending one
setValue(h, value) ==
  IF Stringify(h.state) = Stringify(value) THEN h
  ELSE [h EXCEPT !.state = value, !.pending = <<value>>]

\* the initialValue a component hands to the hook
InitialValue(key) == IF key = LegacyKeys[3] THEN JObj(defaultPreferences) ELSE JArr(<<>>)

\* the values this tab sets
LocalValues(key) ==
  CASE key = LegacyKeys[1] -> {JArr(<<>>), JArr(<<SavedNote(1)>>), JArr(<<SavedNote(2)>>)}
    [] key = LegacyKeys[2] -> {JArr(<<>>), JArr(<<SavedTag(1)>>), JArr(<<SavedTag(2)>>)}
    [] OTHER -> {JObj(defaultPreferences), JObj([defaultPreferences EXCEPT !.theme = "dark"])}

\* the strings another tab stores: values of the key's type, a value with a
\* missing field, and a string that is not JSON
TabStrings(key) ==
  CASE key = LegacyKeys[1] ->
         {Stringify(JArr(<<SavedNote(2)>>)), Stringify(JArr(<<OtherNote, SavedNote(1)>>)),
          Stringify(JArr(<<SavedNote(1), UntitledNote>>)), Corrupt}
    [] key = LegacyKeys[2] ->
         {Stringify(JArr(<<SavedTag(2)>>)), Stringify(JArr(<<OtherTag, SavedTag(1)>>)),
          Stringify(JArr(<<UnnamedTag>>)), Corrupt}
    [] key = LegacyKeys[3] ->
         {Stringify(JObj([defaultPreferences EXCEPT !.theme = "light"])),
          Stringify(JObj([theme |-> "light", tagFilterMode |-> "ANY"])), Corrupt}
    [] OTHER -> {Stringify(JObj([lastBackupAt |-> 1]))}

\* a step of the page that uses the hook: h is the hook and l the storage after it
HookStep(h, l, step) ==
  /\ hook' = [h EXCEPT !.prev = hook.state,
                       !.handled = IF step = "storage" THEN Head(hook.inbox) ELSE NoEvent]
  /\ ls' = l
  /\ lastStep' = step
  /\ before' = [store |-> store, ls |-> ls]
  /\ UNCHANGED <<store, now, uuid, timer, events, mounted, ret, lastSave, imported, dirty,
                 failedKeys>>

SetValue == \E value \in LocalValues(hook.key) : HookStep(setValue(hook, value), ls, "setValue")

\* the debounce timer of the hook fires: saveOperation
FireHook ==
  /\ hook.pending # <<>>
  /\ \/ HookStep([hook EXCEPT !.pending = <<>>, !.error = FALSE],
                  SetItem(ls, Key(hook.key), Stringify(hook.pending[1])), "fireHook")
     \/ HookStep([hook EXCEPT !.pending = <<>>, !.error = TRUE], ls, "fireHook")

\* another tab sets or removes the hook's key or the metadata key; the browser
\* queues a 'storage' event here
OtherTab ==
  /\ Len(hook.inbox) < MaxInbox
  /\ \E key \in {hook.key, LegacyKeys[4]} :
       \/ \E str \in TabStrings(key) :
            HookStep([hook EXCEPT !.inbox = Append(@, [key |-> key, removed |-> FALSE])],
                     SetItem(ls, Key(key), str), "otherTab")
       \/ /\ Key(key) \in DOMAIN ls
          /\ HookStep([hook EXCEPT !.inbox = Append(@, [key |-> key, removed |-> TRUE])],
                      RemoveAll(ls, {Key(key)}), "otherTab")

\* the oldest queued 'storage' event is dispatched to handleStorageChange
StorageEvent ==
  /\ hook.inbox # <<>>
  /\ HookStep(handleStorageChange([hook EXCEPT !.inbox = Tail(@)], ls, Head(hook.inbox)),
              ls, "storage")

\* a component has mounted with the hook on one of the three keys and its load
\* found nothing stored
InitHook ==
  /\ AppIdle(EmptyStorage, 1)
  /\ \E i \in 1..3 :
       hook = [key |-> LegacyKeys[i], state |-> InitialValue(LegacyKeys[i]), error |-> FALSE,
               pending |-> <<>>, inbox |-> <<>>, prev |-> InitialValue(LegacyKeys[i]),
               handled |-> NoEvent]

NextHook ==
  \/ SetValue
  \/ FireHook
  \/ OtherTab
  \/ StorageEvent

\* one tab using useLocalStorage while other tabs write the same storage
SpecHook == InitHook /\ [][NextHook]_vars

\* ------------------------------------------------------ getFilteredNotes
\* a title, a body and a search string are sequences of these characters
Chars == {"a", "A", "b", "B"}

\* String.prototype.toLowerCase, character by character
LowerChar(c) == CASE c = "A" -> "a" [] c = "B" -> "b" [] OTHER -> c
\* a comparison of the strings as they are
toLowerCaseNot(str) == str
toLowerCase(str) == [i \in DOMAIN str |-> LowerChar(str[i])]

\* String.prototype.includes
includes(str, sub) ==
  \E i \in 0..(Len(str) - Len(sub)) : SubSeq(str, i + 1, i + Len(sub)) = sub

\* the place of a letter in the alphabet, whatever its case
LetterRank(c) == IF LowerChar(c) = "a" THEN 1 ELSE 2

RECURSIVE LettersCompare(_, _)
\* the first level of String.prototype.localeCompare: letters, case ignored
LettersCompare(x, y) ==
  IF x = <<>> /\ y = <<>> THEN 0
  ELSE IF x = <<>> THEN -1
  ELSE IF y = <<>> THEN 1
  ELSE IF LetterRank(Head(x)) # LetterRank(Head(y))
       THEN (IF LetterRank(Head(x)) < LetterRank(Head(y)) THEN -1 ELSE 1)
       ELSE LettersCompare(Tail(x), Tail(y))

RECURSIVE CaseCompare(_, _)
\* the last level of localeCompare, for strings of the same letters: at the
\* first difference the lower-case letter comes first
CaseCompare(x, y) ==
  IF x = <<>> THEN 0
  ELSE IF Head(x) # Head(y) THEN (IF Head(x) = LowerChar(Head(x)) THEN -1 ELSE 1)
       ELSE CaseCompare(Tail(x), Tail(y))

\* a.localeCompare(b)
localeCompare(x, y) ==
  IF LettersCompare(x, y) # 0 THEN LettersCompare(x, y) ELSE CaseCompare(x, y)

\* !note.deletedAt is false: deletedAt holds a timestamp
IsDeleted(note) == note.deletedAt \notin {Null, Undefined}

\* a tag filter that knows one mode
TagFilterKeepsAny(note, tags, mode) ==
  \E i \in DOMAIN note.tagIds : note.tagIds[i] \in Range(tags)

\* the filter callback of the tag filter
TagFilterKeeps(note, tags, mode) ==
  IF mode = "ANY"
  THEN \E i \in DOMAIN note.tagIds : note.tagIds[i] \in Range(tags)
  ELSE \A i \in DOMAIN tags : tags[i] \in Range(note.tagIds)

\* a first stage that lets every note through
FilterDeletedNone(notes) == notes

\* the filters of getFilteredNotes, in the order the code applies them
FilterDeleted(notes) == SelectSeq(notes, LAMBDA note : ~IsDeleted(note))
FilterArchived(notes, filters) ==
  IF ~filters.showArchived THEN SelectSeq(notes, LAMBDA note : ~note.archived) ELSE notes
FilterTags(notes, filters, mode) ==
  IF Len(filters.tags) > 0
  THEN SelectSeq(notes, LAMBDA note : TagFilterKeeps(note, filters.tags, mode))
  ELSE notes
FilterUntagged(notes, filters) ==
  IF filters.showUntagged THEN SelectSeq(notes, LAMBDA note : Len(note.tagIds) = 0) ELSE notes
FilterSearch(notes, filters) ==
  IF filters.search # <<>>
  THEN SelectSeq(notes, LAMBDA note :
                   \/ includes(toLowerCase(note.title), toLowerCase(filters.search))
                   \/ includes(toLowerCase(note.body), toLowerCase(filters.search)))
  ELSE notes

\* the comparator handed to Array.prototype.sort
SortCompare(a, b, filters) ==
  IF filters.sortBy = "title"
  THEN (IF filters.sortDirection = "asc" THEN localeCompare(a.title, b.title)
        ELSE localeCompare(b.title, a.title))
  ELSE (IF filters.sortDirection = "asc" THEN a[filters.sortBy] - b[filters.sortBy]
        ELSE b[filters.sortBy] - a[filters.sortBy])

\* note put into a sorted sequence behind everything that does not come after it
InsertSorted(sorted, note, filters) ==
  LET ahead == {i \in DOMAIN sorted : SortCompare(sorted[i], note, filters) <= 0}
      k == IF ahead = {} THEN 0 ELSE CHOOSE i \in ahead : \A j \in ahead : j <= i
  IN SubSeq(sorted, 1, k) \o <<note>> \o SubSeq(sorted, k + 1, Len(sorted))

RECURSIVE SortFrom(_, _, _)
\* Array.prototype.sort, which is stable
SortFrom(sorted, rest, filters) ==
  IF rest = <<>> THEN sorted
  ELSE SortFrom(InsertSorted(sorted, Head(rest), filters), Tail(rest), filters)

\* a stage that sorts most recent first whatever the direction asked for
SortedNotesDescOnly(notes, filters) ==
  SortFrom(<<>>, notes, [filters EXCEPT !.sortDirection = "desc"])

SortedNotes(notes, filters) == SortFrom(<<>>, notes, filters)

\* [...pinned, ...unpinned]
PinnedFirst(notes, filters) ==
  IF filters.showPinned
  THEN SelectSeq(notes, LAMBDA note : note.pinned)
         \o SelectSeq(notes, LAMBDA note : ~note.pinned)
  ELSE notes

\* the notes that reach the sort
Filtered(state) ==
  FilterSearch(FilterUntagged(FilterTags(FilterArchived(FilterDeleted(state.notes),
                                                        state.filters),
                                         state.filters, state.preferences.tagFilterMode),
                              state.filters),
               state.filters)

\* getFilteredNotes() of useAppSelectors, over the state of the store
getFilteredNotes(state) ==
  PinnedFirst(SortedNotes(Filtered(state), state.filters), state.filters)

\* the notes a store may hold when the list is rendered
ListedNote(id, title, body, tagIds, flags, stamps) ==
  [id |-> id, title |-> title, body |-> body, tagIds |-> tagIds, pinned |-> flags[1],
   archived |-> flags[2], createdAt |-> stamps[1], updatedAt |-> stamps[2],
   deletedAt |-> stamps[3]]

ListedNotes ==
  {ListedNote(1, <<"b">>, <<"a", "B">>, <<1>>, <<FALSE, FALSE>>, <<1, 3, Undefined>>),
   ListedNote(2, <<"A", "b">>, <<>>, <<2>>, <<TRUE, FALSE>>, <<2, 2, Null>>),
   ListedNote(3, <<"a", "B">>, <<"b">>, <<2, 1>>, <<FALSE, FALSE>>, <<2, 3, Undefined>>),
   ListedNote(4, <<"a">>, <<"A">>, <<>>, <<TRUE, TRUE>>, <<1, 1, Undefined>>),
   ListedNote(5, <<"a", "b">>, <<"B", "a">>, <<1>>, <<FALSE, FALSE>>, <<3, 4, 4>>),
   ListedNote(6, <<>>, <<"a", "b">>, <<>>, <<FALSE, FALSE>>, <<3, 3, Undefined>>)}

\* the stores rendered: up to MaxListed of these notes, in any order
ListedStores ==
  {list \in UNION {[1..n -> ListedNotes] : n \in 0..MaxListed} :
     \A i, j \in DOMAIN list : i # j => list[i] # list[j]}

\* the filters the reducer may hold
ListedFilters ==
  [search : {<<>>, <<"A", "B">>}, tags : {<<>>, <<1>>, <<1, 2>>},
   showArchived : BOOLEAN, showPinned : BOOLEAN, showUntagged : BOOLEAN,
   sortBy : {"updatedAt", "createdAt", "title"}, sortDirection : {"asc", "desc"}]

\* NoteList renders: getFilteredNotes()
CallGetFilteredNotes ==
  /\ mounted
  /\ lastStep # "getFilteredNotes"
  /\ ret' = <<[op |-> "getFilteredNotes", result |-> getFilteredNotes(store)]>>
  /\ lastStep' = "getFilteredNotes"
  /\ before' = [store |-> store, ls |-> ls]
  /\ UNCHANGED <<store, now, uuid, timer, ls, events, mounted, lastSave, imported, dirty,
                 failedKeys, hook>>

\* a mounted provider whose store holds some notes, filters and a filter mode
InitList ==
  \E list \in ListedStores, filters \in ListedFilters, mode \in {"ANY", "ALL"} :
    MountedAt([store |-> [defaultState EXCEPT !.notes = list, !.filters = filters,
                                             !.preferences.tagFilterMode = mode],
               timer |-> <<>>, ls |-> EmptyStorage, events |-> <<>>], MaxTime)

NextList == CallGetFilteredNotes

\* the selector applied to a store
SpecList == InitList /\ [][NextList]_vars

\* --------------------------------- LocalStorageAdapter of utils/storage.ts
\* the empty string, which localStorage stores like any other
Blank == [json |-> FALSE, length |-> 0]

\* a value JSON.stringify throws on
Cyclic == [t |-> "cyclic"]

\* LocalStorageAdapter.getItem: null, the parsed value, or the error thrown
getItem(l, name) ==
  IF Key(name) \notin DOMAIN l THEN [type |-> "null"]
  ELSE IF l[Key(name)] = Blank THEN [type |-> "null"]
  ELSE IF ~Parses(l[Key(name)]) THEN [type |-> "parse_error"]
  ELSE [type |-> "value", value |-> Parse(l[Key(name)])]

\* LocalStorageAdapter.setItem, where localStorage.setItem does out: the
\* storage after it and "ok" or the type of the error thrown
setItem(l, name, value, out) ==
  IF value.t = "cyclic" THEN [ls |-> l, type |-> "write_error"]
  ELSE IF out = "ok" THEN [ls |-> SetItem(l, Key(name), Stringify(value)), type |-> "ok"]
  ELSE IF out = "quota" THEN [ls |-> l, type |-> "quota_exceeded"]
  ELSE [ls |-> l, type |-> "write_error"]

\* the keys the adapter is called with and the strings found under them
AdapterKeys == {LegacyKeys[1], LegacyKeys[4]}
AdapterValues == {JArr(<<>>), JArr(<<SavedNote(1)>>)}
AdapterStrings == {Blank, Corrupt} \cup {Stringify(v) : v \in AdapterValues}
AdapterStorages ==
  UNION {[{Key(n) : n \in names} -> AdapterStrings] : names \in SUBSET AdapterKeys}

CallGetItem ==
  \E name \in AdapterKeys :
    /\ ret' = <<[op |-> "getItem", key |-> name, result |-> getItem(ls, name)]>>
    /\ lastStep' = "getItem"
    /\ before' = [store |-> store, ls |-> ls]
    /\ UNCHANGED <<store, now, uuid, timer, ls, events, mounted, lastSave, imported, dirty,
                   failedKeys, hook>>

CallSetItem ==
  \E name \in AdapterKeys, value \in AdapterValues \cup {Cyclic}, out \in Outcomes :
    /\ ls' = setItem(ls, name, value, out).ls
    /\ ret' = <<[op |-> "setItem", key |-> name, out |-> out, cyclic |-> value = Cyclic,
                 result |-> [type |-> setItem(ls, name, value, out).type]]>>
    /\ lastStep' = "setItem"
    /\ before' = [store |-> store, ls |-> ls]
    /\ UNCHANGED <<store, now, uuid, timer, events, mounted, lastSave, imported, dirty,
                   failedKeys, hook>>

InitAdapter == \E l \in AdapterStorages : Unmounted(l, 1)

NextAdapter ==
  \/ CallGetItem
  \/ CallSetItem

\* the storage adapter called over whatever localStorage holds
SpecAdapter == InitAdapter /\ [][NextAdapter]_vars

\* ============================================================== properties
PersistedKeys == {NOTES, TAGS, PREFERENCES}

\* the positions of a save's log that belong to a stage
StageOf(log, stage) == {i \in DOMAIN log : log[i].stage = stage}

\* the keys a stage of a save removed, and those it stored
RemovedIn(log, stage) == {log[i].key : i \in {j \in StageOf(log, stage) : log[j].op = "remove"}}
StoredIn(log, stage) ==
  {log[i].key : i \in {j \in StageOf(log, stage) : log[j].op = "set" /\ log[j].res = "ok"}}

\* the save met QuotaExceededError at the write of the key or of the metadata
QuotaHit(save) ==
  \E i \in DOMAIN save.log :
    save.log[i].stage \in {"primary", "metadata"} /\ save.log[i].res = "quota"

\* the save retried and the retry failed
RetryFailed(save) == \E i \in StageOf(save.log, "retry") : save.log[i].res # "ok"

\* the write of a key is pending
Pending(tm, key) == tm # <<>> /\ tm[1].key = key

\* the string a reload finds for a key: a key never written reads as its default
Stored(l, key) == IF Key(key) \in DOMAIN l THEN l[Key(key)] ELSE Stringify(DefaultOf(key))

\* the newest of a set of backup keys
NewestOf(ks) == CHOOSE k \in ks : \A j \in ks : j.ts <= k.ts

\* the value under the key does not parse or does not validate
Unreadable(l, key) ==
  /\ Key(key) \in DOMAIN l
  /\ ~Parses(l[Key(key)]) \/ ~validateData(Parse(l[Key(key)]), key)

\* the backups of a key, under the name createBackup gives them, that hold valid data
WrittenValid(l, key) == {b \in BackupsOf(l, key) : BackupRestores(l, b, key)}

\* the tag ids the notes of a state carry
CarriedTagIds(state) == UNION {Range(state.notes[i].tagIds) : i \in DOMAIN state.notes}

\* C1: after a DELETE_TAG exactly the deleted tag is gone from tags and no note
\* carries its id; and as long as no IMPORT_DATA was reduced (the UI gives a note
\* only ids of tags that exist), every tagId of every note is the id of a tag.
C1_NoDanglingTagIds ==
  /\ lastStep = "DELETE_TAG" =>
       /\ Cardinality(TagIds(before.store) \ TagIds(store)) = 1
       /\ CarriedTagIds(store) \cap (TagIds(before.store) \ TagIds(store)) = {}
  /\ ~imported => CarriedTagIds(store) \subseteq TagIds(store)

\* C1 witness: a tag that a note carried has just been deleted
C1_Witness ==
  /\ lastStep = "DELETE_TAG"
  /\ CarriedTagIds(before.store) \cap (TagIds(before.store) \ TagIds(store)) # {}

\* C2 as stated: a write that is pending for a changed key is still pending
\* after any dispatch, whichever key the dispatch changes; only its own timer
\* ends it.
C2_PendingWriteSurvives ==
  [][\A key \in PersistedKeys :
       (key \in dirty /\ Pending(timer, key) /\ lastStep' # "fire") => Pending(timer', key)]_vars

\* C3 as stated: once no save is pending and no save has failed, the strings
\* stored for notes, tags and preferences are the serializations of the store's
\* notes, tags and preferences.
C3_StorageMatchesStore ==
  (mounted /\ timer = <<>> /\ failedKeys = {}) =>
    \A key \in PersistedKeys : Stored(ls, key) = Stringify(SliceOf(store, key))

\* C4 as stated: when the value under the notes or tags key is unreadable and a
\* backup written by createBackup for the key holds valid data, the load returns
\* the data of the newest such backup and, if the save of it succeeds, that data
\* is stored under the key.
C4_LoadRecoversNewestBackup ==
  lastStep = "mount" =>
    \A key \in {NOTES, TAGS} :
      (Unreadable(before.ls, key) /\ WrittenValid(before.ls, key) # {}) =>
        /\ SliceOf(store, key) = Parse(before.ls[NewestOf(WrittenValid(before.ls, key))]).fields.data
        /\ key \in ret[1].persisted =>
             ls[Key(key)] =
               Stringify(Parse(before.ls[NewestOf(WrittenValid(before.ls, key))]).fields.data)

\* C5 as stated: a call of importData that fails leaves every key of the
\* storage as it was.
C5_FailedImportChangesNothing ==
  (lastStep = "importData" /\ ~ret[1].ok) => ls = before.ls

\* C6: importData of a text that parses and validates and whose version is not
\* 1 throws a parse_error and leaves the storage as it was.
C6_UnsupportedVersionRejected ==
  (/\ lastStep = "importData"
   /\ Parses(ret[1].json)
   /\ isValidAppData(Parse(ret[1].json))
   /\ Parse(ret[1].json).fields.version # 1) =>
    /\ ~ret[1].ok
    /\ ret[1].error = "parse_error"
    /\ ls = before.ls

\* C6 witness: an export of version 2 was imported over a storage that holds an
\* earlier import
C6_Witness ==
  /\ lastStep = "importData"
  /\ Parses(ret[1].json)
  /\ isValidAppData(Parse(ret[1].json))
  /\ Parse(ret[1].json).fields.version = 2
  /\ Key(LegacyKeys[1]) \in DOMAIN before.ls

C8_RetryFailureSurfaced ==
  \A save \in Range(lastSave) :
    (QuotaHit(save) /\ RetryFailed(save)) =>
      /\ ~save.ok
      /\ \E n \in DOMAIN events :
           /\ "type" \in DOMAIN events[n]
           /\ events[n].type = "quota_exceeded"
           /\ events[n].key = save.key
      /\ Cardinality(StageOf(save.log, "retry")) = 1
      /\ \A i \in StageOf(save.log, "retry") : i = Len(save.log)
      /\ store = before.store

\* C8 witness: a save of the notes whose write and whose retry both met the quota
C8_Witness ==
  \E save \in Range(lastSave) :
    QuotaHit(save) /\ RetryFailed(save) /\ save.key = NOTES

\* C9: storage never holds more than 3 backups of the notes key or of the tags
\* key; the backups createBackup removes are backups of the key being saved, each
\* older than every one it keeps, and the one just written is kept.
C9_BackupRetention ==
  /\ \A key \in {NOTES, TAGS} : Cardinality(BackupsOf(ls, key)) <= BackupsKept
  /\ \A save \in Range(lastSave) :
       LET had == BackupsOf(before.ls, save.key) \ RemovedIn(save.log, "sweep")
           written == StoredIn(save.log, "backup")
           dropped == RemovedIn(save.log, "backup")
       IN /\ dropped \subseteq had
          /\ dropped # {} => written # {}
          /\ \A d \in dropped : \A k \in (had \cup written) \ dropped : d.ts < k.ts
          /\ Cardinality((had \cup written) \ dropped) <= BackupsKept

\* C9 witness: a backup of one key was written and an older one pruned while
\* the other key had backups, which are all still there
C9_Witness ==
  \E save \in Range(lastSave) :
    /\ RemovedIn(save.log, "backup") # {}
    /\ \E key \in {NOTES, TAGS} \ {save.key} :
         BackupsOf(ls, key) # {} /\ BackupsOf(ls, key) = BackupsOf(before.ls, key)

\* C10 as stated: a save writes the value its key has in the store at that
\* moment, never an earlier one, and once no timer is pending every change of
\* every key has been followed by a write of that key.
C10_BurstWrittenOnce ==
  /\ \A save \in Range(lastSave) : save.data = SliceOf(store, save.key)
  /\ timer = <<>> => dirty = {}

\* C11 as stated: a dispatch after which a key's value serializes as it did
\* before does not leave a write of that key scheduled that was not scheduled
\* before.
C11_EqualValueSchedulesNothing ==
  [][\A key \in PersistedKeys :
       (/\ lastStep' # "fire"
        /\ Stringify(SliceOf(store', key)) = Stringify(SliceOf(store, key))) =>
         ~(Pending(timer', key) /\ ~Pending(timer, key))]_vars

\* C12 as stated: an UPDATE_NOTE after which every field of a note but
\* updatedAt holds what it held before (the payload repeated the note's values,
\* or named no note) has left updatedAt as it was, and the notes unchanged.
C12_IdenticalUpdateIsNoOp ==
  lastStep = "UPDATE_NOTE" =>
    /\ Len(store.notes) = Len(before.store.notes)
    /\ \A i \in DOMAIN store.notes :
         (\A k \in DOMAIN store.notes[i] \ {"updatedAt"} :
            k \in DOMAIN before.store.notes[i]
              /\ store.notes[i][k] = before.store.notes[i][k]) =>
           store.notes[i].updatedAt = before.store.notes[i].updatedAt

\* C13: no two notes of the store share an id, after any sequence of AddNote,
\* UpdateNote, DeleteNote and RestoreNote from the empty store.
C13_NoteIdsUnique ==
  \A i, j \in DOMAIN store.notes : i # j => store.notes[i].id # store.notes[j].id

\* as many notes as identifiers are in the store and each of the four actions
\* has acted: a note was updated, one is deleted and one has been restored
C13_Witness ==
  /\ Len(store.notes) = MaxIds
  /\ lastStep = "RESTORE_NOTE"
  /\ \E i \in DOMAIN store.notes : store.notes[i].createdAt = MaxTime
  /\ \E i \in DOMAIN store.notes : store.notes[i].deletedAt \notin {Undefined, Null}
  /\ \E i \in DOMAIN store.notes :
       store.notes[i].deletedAt = Null /\ before.store.notes[i].deletedAt # Null

\* C14 as stated: every note of the store has updatedAt >= createdAt, whatever
\* the UpdateNote payloads carried.
C14_TimestampsOrdered ==
  \A i \in DOMAIN store.notes : store.notes[i].updatedAt >= store.notes[i].createdAt

\* the string importData's round trip must leave under a key of utils/storage.ts:
\* the one it held, or the default exportData reads for a key that held none
RoundTripExpected(l, i) ==
  IF Key(LegacyKeys[i]) \in DOMAIN l THEN l[Key(LegacyKeys[i])]
  ELSE Stringify(IF i = 3 THEN JObj(defaultPreferences) ELSE JArr(<<>>))

\* C15: importData(exportData()) over stored notes, tags and preferences that
\* form a valid envelope succeeds and leaves the three stored values, element
\* by element and in the same order, as they were.
C15_RoundTripKeepsData ==
  lastStep = "roundTrip" =>
    /\ ret[1].ok
    /\ \A i \in 1..3 :
         /\ Key(LegacyKeys[i]) \in DOMAIN ls
         /\ ls[Key(LegacyKeys[i])] = RoundTripExpected(before.ls, i)

\* a round trip over two stored notes and two stored tags
C15_Witness ==
  /\ lastStep = "roundTrip"
  /\ ret[1].ok
  /\ ls[Key(LegacyKeys[1])] = Stringify(JArr(<<OtherNote, SavedNote(1)>>))
  /\ ls[Key(LegacyKeys[2])] = Stringify(JArr(<<SavedTag(1), OtherTag>>))
  /\ Key(LegacyKeys[4]) \notin DOMAIN before.ls

\* C16 as stated: when exportData is called while no write is pending and
\* localStorage holds the store's notes, tags and preferences, it returns an
\* envelope of version 1 whose notes, tags and preferences are the store's.
C16_ExportMatchesStore ==
  (/\ lastStep = "exportData"
   /\ mounted
   /\ timer = <<>>
   /\ \A key \in PersistedKeys : Stored(ls, key) = Stringify(SliceOf(store, key))) =>
    /\ ret[1].ok
    /\ Parse(ret[1].json).fields.version = 1
    /\ Stringify(Parse(ret[1].json).fields.notes) = Stringify(SliceOf(store, NOTES))
    /\ Stringify(Parse(ret[1].json).fields.tags) = Stringify(SliceOf(store, TAGS))
    /\ Stringify(Parse(ret[1].json).fields.preferences) = Stringify(SliceOf(store, PREFERENCES))

\* C17 as stated: the preferences of every state of a mounted AppProvider have
\* theme in {light, dark, system}, density in {comfortable, compact} and
\* tagFilterMode in {ANY, ALL}; a stored value outside these sets is rejected.
C17_PreferencesEnumerated ==
  mounted =>
    /\ store.preferences.theme \in {"light", "dark", "system"}
    /\ store.preferences.density \in {"comfortable", "compact"}
    /\ store.preferences.tagFilterMode \in {"ANY", "ALL"}

\* the elements of a stored string that parses
StoredItems(l, key) == Parse(l[Key(key)]).items

\* a note or a tag with every required field of its type
HasRequiredFields(key, item) == IF key = NOTES THEN isValidNote(item) ELSE isValidTag(item)

\* C18 as stated: the notes and the tags a load yields have every required
\* field of Note and Tag; they are not a strict part of the stored collection;
\* and a stored collection with an invalid element yields no element of it.
C18_LoadFailsClosed ==
  lastStep = "mount" =>
    \A key \in {NOTES, TAGS} :
      /\ \A item \in Range(SliceOf(store, key).items) : HasRequiredFields(key, item)
      /\ \/ SliceOf(store, key).items = <<>>
         \/ ~(/\ Range(SliceOf(store, key).items) \subseteq Range(StoredItems(before.ls, key))
              /\ Range(SliceOf(store, key).items) # Range(StoredItems(before.ls, key)))
      /\ (\E item \in Range(StoredItems(before.ls, key)) : ~HasRequiredFields(key, item)) =>
           Range(SliceOf(store, key).items) \cap Range(StoredItems(before.ls, key)) = {}

\* the text is the wrapped envelope {version, exportDate, data} with
\* structurally valid notes, tags and preferences
WrappedValid(d) ==
  /\ d.t = "object"
  /\ {"version", "exportDate", "data"} \subseteq DOMAIN d.fields
  /\ {"notes", "tags", "preferences"} \subseteq DOMAIN d.fields.data.fields
  /\ \A i \in DOMAIN d.fields.data.fields.notes.items :
       isValidNote(d.fields.data.fields.notes.items[i])
  /\ \A i \in DOMAIN d.fields.data.fields.tags.items :
       isValidTag(d.fields.data.fields.tags.items[i])
  /\ isValidPreferences(d.fields.data.fields.preferences)

\* the text is one of the two envelopes an import accepts
ValidEnvelope(json) ==
  /\ Parses(json)
  /\ \/ isValidAppData(Parse(json)) /\ Parse(json).fields.version = 1
     \/ WrappedValid(Parse(json))

\* C19 as stated: a call of importData or of StorageUtils.importData that
\* changed anything in localStorage was handed a version-1 envelope or a
\* wrapped envelope with structurally valid notes, tags and preferences.
C19_OnlyValidEnvelopesWritten ==
  (lastStep \in {"importData", "StorageUtils.importData"} /\ ls # before.ls) =>
    ValidEnvelope(ret[1].json)

\* C20: when a 'storage' event for the hook's key with a non-null new value has
\* been handled and the value read back parses and passes the key's validation,
\* the hook's state is that stored value, whatever the state was before.
C20_StorageEventLastWriterWins ==
  (/\ lastStep = "storage"
   /\ hook.handled = [key |-> hook.key, removed |-> FALSE]
   /\ Key(hook.key) \in DOMAIN ls
   /\ Parses(ls[Key(hook.key)])
   /\ HookValid(hook.key, Parse(ls[Key(hook.key)]))) =>
    hook.state = Parse(ls[Key(hook.key)])

\* such an event replaced a state this tab had set and not yet saved
C20_Witness ==
  /\ lastStep = "storage"
  /\ hook.handled = [key |-> hook.key, removed |-> FALSE]
  /\ Key(hook.key) \in DOMAIN ls
  /\ Parses(ls[Key(hook.key)])
  /\ hook.state = Parse(ls[Key(hook.key)])
  /\ hook.pending # <<>>
  /\ hook.prev = hook.pending[1]
  /\ Stringify(hook.prev) # ls[Key(hook.key)]

\* the re-read of the hook's key fails to parse, or yields a value the key's
\* validation rejects
RereadFails(l, key) ==
  /\ Key(key) \in DOMAIN l
  /\ ~Parses(l[Key(key)]) \/ ~HookValid(key, Parse(l[Key(key)]))

\* C21: when a 'storage' event for the hook's key has been handled and the
\* re-read failed to parse or failed validation, the hook's state is what it was
\* before the event; a parse failure is caught and recorded as the hook's error.
C21_StorageEventFailSafe ==
  (/\ lastStep = "storage"
   /\ hook.handled = [key |-> hook.key, removed |-> FALSE]
   /\ RereadFails(ls, hook.key)) =>
    /\ hook.state = hook.prev
    /\ ~Parses(ls[Key(hook.key)]) => hook.error

\* such an event met a state this tab had set, with a stored value that parses
\* and is invalid
C21_Witness ==
  /\ lastStep = "storage"
  /\ hook.handled = [key |-> hook.key, removed |-> FALSE]
  /\ RereadFails(ls, hook.key)
  /\ Parses(ls[Key(hook.key)])
  /\ hook.state = hook.prev
  /\ hook.state # InitialValue(hook.key)

\* what the last call of getFilteredNotes returned
Shown == ret[1].result

\* sub occurs in str when the case of the letters is ignored
Occurs(sub, str) ==
  \E k \in 0..(Len(str) - Len(sub)) :
    \A j \in 1..Len(sub) : LowerChar(str[k + j]) = LowerChar(sub[j])

\* the note is visible under the filters other than the tag filter and the search
PassesView(note, filters) ==
  /\ ~IsDeleted(note)
  /\ filters.showArchived \/ ~note.archived
  /\ filters.showUntagged => note.tagIds = <<>>

PassesTags(note, filters, mode) ==
  \/ filters.tags = <<>>
  \/ mode = "ANY" /\ Range(note.tagIds) \cap Range(filters.tags) # {}
  \/ mode = "ALL" /\ Range(filters.tags) \subseteq Range(note.tagIds)

PassesSearch(note, filters) ==
  \/ filters.search = <<>>
  \/ Occurs(filters.search, note.title)
  \/ Occurs(filters.search, note.body)

\* C22: the notes getFilteredNotes returns are, of the notes visible under the
\* other filters, exactly those with at least one filter tag (mode ANY), with
\* every filter tag (mode ALL), or all of them when filters.tags is empty.
C22_TagFilterModes ==
  lastStep = "getFilteredNotes" =>
    Range(Shown) =
      {note \in Range(store.notes) :
         /\ PassesView(note, store.filters) /\ PassesSearch(note, store.filters)
         /\ PassesTags(note, store.filters, store.preferences.tagFilterMode)}

\* with two filter tags and mode ALL a note with one of them was left out and
\* a note with both was returned
C22_Witness ==
  /\ lastStep = "getFilteredNotes"
  /\ store.preferences.tagFilterMode = "ALL"
  /\ Len(store.filters.tags) = 2
  /\ Shown # <<>>
  /\ \E note \in Range(store.notes) \ Range(Shown) :
       /\ PassesView(note, store.filters) /\ PassesSearch(note, store.filters)
       /\ Range(note.tagIds) \cap Range(store.filters.tags) # {}

\* C23: getFilteredNotes returns no note whose deletedAt holds a timestamp, and
\* an archived note only if showArchived is set; the call leaves the store's
\* notes, the soft-deleted ones among them, as they were.
C23_NoDeletedNoHiddenArchived ==
  lastStep = "getFilteredNotes" =>
    /\ \A i \in DOMAIN Shown : ~IsDeleted(Shown[i])
    /\ \A i \in DOMAIN Shown : Shown[i].archived => store.filters.showArchived
    /\ store.notes = before.store.notes

\* the store holds a soft-deleted note and an archived one, and the archived
\* one is returned
C23_Witness ==
  /\ lastStep = "getFilteredNotes"
  /\ \E i \in DOMAIN store.notes : IsDeleted(store.notes[i])
  /\ \E i \in DOMAIN Shown : Shown[i].archived
  /\ Len(Shown) < Len(store.notes)

\* C24: with a non-empty search string a note visible under the other filters
\* is returned if and only if the lower-cased search string occurs in its
\* lower-cased title or body.
C24_SearchIgnoresCase ==
  (lastStep = "getFilteredNotes" /\ store.filters.search # <<>>) =>
    \A note \in Range(store.notes) :
      (/\ PassesView(note, store.filters)
       /\ PassesTags(note, store.filters, store.preferences.tagFilterMode)) =>
        (note \in Range(Shown) <=>
           \/ Occurs(store.filters.search, note.title)
           \/ Occurs(store.filters.search, note.body))

\* a search matched one note only through letters of another case and left
\* out another visible note
C24_Witness ==
  /\ lastStep = "getFilteredNotes"
  /\ store.filters.search # <<>>
  /\ \E note \in Range(Shown) :
       ~includes(note.title, store.filters.search)
         /\ ~includes(note.body, store.filters.search)
  /\ \E note \in Range(store.notes) \ Range(Shown) :
       /\ PassesView(note, store.filters)
       /\ PassesTags(note, store.filters, store.preferences.tagFilterMode)

\* a comes no later than b in the order the filters ask for
InSortOrder(a, b, filters) ==
  IF filters.sortBy = "title"
  THEN (IF filters.sortDirection = "asc" THEN localeCompare(a.title, b.title) <= 0
        ELSE localeCompare(a.title, b.title) >= 0)
  ELSE (IF filters.sortDirection = "asc" THEN a[filters.sortBy] <= b[filters.sortBy]
        ELSE a[filters.sortBy] >= b[filters.sortBy])

\* C25: the result holds each note that passes the filters once; with
\* showPinned every pinned note precedes every unpinned one and each of the two
\* groups is in the order of sortBy and sortDirection; without it the whole
\* result is.
C25_SortedPinnedFirst ==
  lastStep = "getFilteredNotes" =>
    /\ Range(Shown) =
         {note \in Range(store.notes) :
            /\ PassesView(note, store.filters) /\ PassesSearch(note, store.filters)
            /\ PassesTags(note, store.filters, store.preferences.tagFilterMode)}
    /\ \A i, j \in DOMAIN Shown : i # j => Shown[i] # Shown[j]
    /\ \A i, j \in DOMAIN Shown :
         i < j =>
           /\ store.filters.showPinned => ~(~Shown[i].pinned /\ Shown[j].pinned)
           /\ (store.filters.showPinned => Shown[i].pinned = Shown[j].pinned) =>
                InSortOrder(Shown[i], Shown[j], store.filters)

\* three notes are returned in ascending order, a pinned one ahead of two
\* unpinned ones that the sort alone would have put before it
C25_Witness ==
  /\ lastStep = "getFilteredNotes"
  /\ store.filters.showPinned
  /\ store.filters.sortDirection = "asc"
  /\ Len(Shown) = 3
  /\ Shown[1].pinned /\ ~Shown[2].pinned /\ ~Shown[3].pinned
  /\ ~InSortOrder(Shown[1], Shown[2], store.filters)
  /\ Shown[2] # store.notes[1]

\* C26: a debounced save, whatever it does to localStorage (backup, pruning,
\* quota recovery) and whether it succeeds or fails and signals an error,
\* leaves notes, tags, preferences, filters and selection as they were.
C26_SaveLeavesStoreAlone ==
  lastStep = "fire" => store = before.store

\* a save failed and signalled it after changing what localStorage holds,
\* over a store that holds notes
C26_Witness ==
  /\ lastStep = "fire"
  /\ ~lastSave[1].ok
  /\ events # <<>>
  /\ ls # before.ls
  /\ store.notes # <<>>

\* the string getItem found under the key it was called with
Found == before.ls[Key(ret[1].key)]

\* C27: setItem throws quota_exceeded exactly when localStorage rejects the
\* write for lack of space and write_error for every other failure, and a
\* failed setItem leaves localStorage as it was; getItem returns null for an
\* absent key and throws parse_error for a stored string JSON.parse rejects.
C27_AdapterErrorMapping ==
  /\ lastStep = "setItem" =>
       /\ ret[1].result.type = "quota_exceeded" <=> (~ret[1].cyclic /\ ret[1].out = "quota")
       /\ ret[1].result.type = "write_error" <=> (ret[1].cyclic \/ ret[1].out = "error")
       /\ ret[1].result.type # "ok" => ls = before.ls
  /\ lastStep = "getItem" =>
       /\ Key(ret[1].key) \notin DOMAIN before.ls => ret[1].result.type = "null"
       /\ (Key(ret[1].key) \in DOMAIN before.ls /\ ~Parses(Found)) =>
            ret[1].result.type = "parse_error"

\* the same with the empty string set aside
C27_ExceptEmptyString ==
  /\ lastStep = "setItem" =>
       /\ ret[1].result.type = "quota_exceeded" <=> (~ret[1].cyclic /\ ret[1].out = "quota")
       /\ ret[1].result.type = "write_error" <=> (ret[1].cyclic \/ ret[1].out = "error")
       /\ ret[1].result.type # "ok" => ls = before.ls
  /\ lastStep = "getItem" =>
       /\ Key(ret[1].key) \notin DOMAIN before.ls => ret[1].result.type = "null"
       /\ (Key(ret[1].key) \in DOMAIN before.ls /\ ~Parses(Found) /\ Found # Blank) =>
            ret[1].result.type = "parse_error"

\* the tag ids the notes stored under the notes key carry
StoredTagRefs(l) ==
  IF Key(NOTES) \in DOMAIN l /\ Parses(l[Key(NOTES)])
  THEN UNION {Range(Parse(l[Key(NOTES)]).items[i].tagIds) :
                i \in DOMAIN Parse(l[Key(NOTES)]).items}
  ELSE {}

\* the tag the DELETE_TAG just reduced took out of tags
DeletedTagIds == TagIds(before.store) \ TagIds(store)

\* a DELETE_TAG of a tag some note carried, then the timer firing with a save
\* that succeeds, leaves no stored note with the id of the tag
DeleteTagPersisted ==
  (/\ lastStep = "DELETE_TAG"
   /\ DeletedTagIds \cap CarriedTagIds(before.store) # {}
   /\ lastStep' = "fire"
   /\ timer' = <<>>
   /\ lastSave'[1].ok)
    => StoredTagRefs(ls') \cap DeletedTagIds = {}

\* C28: once DELETE_TAG was dispatched for a tag a note carried and the
\* debounce timer has fired with its write succeeding, the notes stored under
\* the notes key carry no reference to the deleted tag.
C28_StoredNotesDropDeletedTag == [][DeleteTagPersisted]_vars

\* a 'storage' event for the hook's key has just been handled, its re-read was
\* valid, and a write of this tab is still pending; then the timer fires and
\* the write succeeds, with no event waiting: the stored string is the state
PendingWriteAfterSync ==
  (/\ lastStep = "storage"
   /\ hook.handled = [key |-> hook.key, removed |-> FALSE]
   /\ Key(hook.key) \in DOMAIN ls
   /\ ~RereadFails(ls, hook.key)
   /\ hook.pending # <<>>
   /\ hook.inbox = <<>>
   /\ lastStep' = "fireHook"
   /\ ~hook'.error)
    => ls'[Key(hook.key)] = Stringify(hook'.state)

\* C29: if a validated external change of the hook's key is handled while a
\* local setValue has its debounced write pending, then once the timer has
\* fired the value stored under the key is the hook's in-memory state.
C29_PendingWriteKeepsSync == [][PendingWriteAfterSync]_vars

\* C30: as long as UPDATE_FILTERS only selects ids of tags that exist, every
\* id in filters.tags is the id of a tag in tags; a DELETE_TAG leaves the id of
\* the deleted tag out of filters.tags.
C30_FilterTagsExist == Range(store.filters.tags) \subseteq TagIds(store)

\* the positions of a save's log at which the key being saved was stored
PrimaryWrites(save) ==
  {i \in DOMAIN save.log :
     /\ save.log[i].stage \in {"primary", "retry"}
     /\ save.log[i].op = "set" /\ save.log[i].res = "ok"}

\* the positions of a save's log at which a backup snapshot was stored
BackupWrites(save) ==
  {i \in DOMAIN save.log :
     /\ save.log[i].stage = "backup"
     /\ save.log[i].op = "set" /\ save.log[i].res = "ok"}

\* C31: in a save of notes or tags every write of the key, the retried one
\* included, comes after a backup snapshot of that key stored in the same save;
\* a save of preferences stores no backup snapshot.
C31_BackupBeforeOverwrite ==
  lastStep = "fire" =>
    /\ lastSave[1].key \in {NOTES, TAGS} =>
         \A i \in PrimaryWrites(lastSave[1]) :
           \E j \in BackupWrites(lastSave[1]) :
             j < i /\ BaseKey(lastSave[1].log[j].key) =
                        [prefix |-> BACKUP_PREFIX, name |-> lastSave[1].key]
    /\ lastSave[1].key = PREFERENCES => BackupWrites(lastSave[1]) = {}

\* the same for the saves whose backup write did not fail
C31_UnlessBackupFails ==
  (lastStep = "fire" /\ \A i \in DOMAIN lastSave[1].log :
                          lastSave[1].log[i].stage = "backup" => lastSave[1].log[i].res = "ok") =>
    /\ lastSave[1].key \in {NOTES, TAGS} =>
         \A i \in PrimaryWrites(lastSave[1]) :
           \E j \in BackupWrites(lastSave[1]) :
             j < i /\ BaseKey(lastSave[1].log[j].key) =
                        [prefix |-> BACKUP_PREFIX, name |-> lastSave[1].key]
    /\ lastSave[1].key = PREFERENCES => BackupWrites(lastSave[1]) = {}

\* the backups a save found or wrote, those of the sweep above 90% set aside
BackupsSeen(save) ==
  (AllBackups(before.ls) \ RemovedIn(save.log, "sweep")) \cup StoredIn(save.log, "backup")

\* C32: after a save that went through the quota recovery no key of the legacy
\* scheme is stored, and every base key has at most one backup, the newest of
\* those it had.
C32_RecoveryPostcondition ==
  \A save \in Range(lastSave) :
    QuotaHit(save) =>
      /\ \A n \in DOMAIN LegacyKeys : Key(LegacyKeys[n]) \notin DOMAIN ls
      /\ \A b \in AllBackups(ls) :
           \A c \in BackupsSeen(save) : BaseKey(c) = BaseKey(b) => c.ts <= b.ts

\* the write of the key threw something other than QuotaExceededError
WriteErrorHit(save) ==
  \E i \in StageOf(save.log, "primary") : save.log[i].res = "error"

\* C33: a save whose write of the key fails with another error than
\* QuotaExceededError runs no step of the recovery (no old key removed, no
\* backup pruned by it, no second write of the key), returns false, leaves the
\* key as stored, and a 'storage-error' event with the key is dispatched.
C33_WriteErrorNotRetried ==
  \A save \in Range(lastSave) :
    WriteErrorHit(save) =>
      /\ StageOf(save.log, "legacy") = {}
      /\ StageOf(save.log, "prune") = {}
      /\ StageOf(save.log, "retry") = {}
      /\ Cardinality(StageOf(save.log, "primary")) = 1
      /\ \A n \in DOMAIN LegacyKeys :
           Key(LegacyKeys[n]) \in DOMAIN before.ls => Key(LegacyKeys[n]) \in DOMAIN ls
      /\ Stored(ls, save.key) = Stored(before.ls, save.key)
      /\ ~save.ok
      /\ \E n \in DOMAIN events : events[n].key = save.key

\* such a save of the notes, over old keys and two backups of the tags that a
\* recovery would have removed
C33_Witness ==
  \E save \in Range(lastSave) :
    /\ WriteErrorHit(save)
    /\ save.key = NOTES
    /\ Key(LegacyKeys[1]) \in DOMAIN ls
    /\ Cardinality(BackupsOf(ls, TAGS)) >= 2
    /\ events # <<>>

\* the ids of the notes of a state, in order
NoteIds(state) == [i \in DOMAIN state.notes |-> state.notes[i].id]

\* C34: every action but ADD_NOTE and IMPORT_DATA leaves the ids of the notes
\* as they were, in the same order; ADD_NOTE puts one id, held by no note
\* before, in front of them.
C34_NoteIdsKept ==
  /\ lastStep \notin {"ADD_NOTE", "IMPORT_DATA", "mount"} =>
       NoteIds(store) = NoteIds(before.store)
  /\ lastStep = "ADD_NOTE" =>
       /\ Tail(NoteIds(store)) = NoteIds(before.store)
       /\ Head(NoteIds(store)) \notin Range(NoteIds(before.store))

\* a DELETE_NOTE over two notes, one of which was deleted and restored before
C34_Witness ==
  /\ lastStep = "DELETE_NOTE"
  /\ Len(store.notes) = MaxIds
  /\ \E i \in DOMAIN store.notes : store.notes[i].deletedAt = Null
  /\ \E i \in DOMAIN store.notes : store.notes[i].id = ret[1].id

\* what a DELETE_NOTE of the id in ret' does to the store
DeleteNoteEffect ==
  lastStep' = "DELETE_NOTE" =>
    /\ DOMAIN store'.notes = DOMAIN store.notes
    /\ \A i \in DOMAIN store.notes :
         IF store.notes[i].id = ret'[1].id
         THEN /\ store'.notes[i].deletedAt = now
              /\ DOMAIN store'.notes[i] = DOMAIN store.notes[i] \cup {"deletedAt"}
              /\ \A k \in DOMAIN store.notes[i] \ {"deletedAt"} :
                   store'.notes[i][k] = store.notes[i][k]
         ELSE store'.notes[i] = store.notes[i]
    /\ store'.selectedNoteId =
         (IF store.selectedNoteId = ret'[1].id THEN Null ELSE store.selectedNoteId)

\* what a RESTORE_NOTE does that follows the DELETE_NOTE of the same id
RestoreAfterDelete ==
  (lastStep = "DELETE_NOTE" /\ lastStep' = "RESTORE_NOTE" /\ ret'[1].id = ret[1].id) =>
    /\ ret[1].id \in ShownIds(store')
    /\ \A i \in DOMAIN before.store.notes :
         before.store.notes[i].id = ret[1].id =>
           /\ store'.notes[i].id = ret[1].id
           /\ store'.notes[i].title = before.store.notes[i].title
           /\ store'.notes[i].body = before.store.notes[i].body
           /\ store'.notes[i].tagIds = before.store.notes[i].tagIds

\* C35: DELETE_NOTE(id) sets deletedAt to the present instant on the note with
\* that id, leaves its other fields, the other notes and the order alone, and
\* clears selectedNoteId exactly when it was id; a RESTORE_NOTE(id) that follows
\* puts the note back among the notes shown, title, body and tagIds as before
\* the deletion.
C35_DeleteThenRestore == [][DeleteNoteEffect /\ RestoreAfterDelete]_vars

\* a note that was deleted while another stayed selected has been restored
C35_Witness ==
  /\ lastStep = "RESTORE_NOTE"
  /\ Len(store.notes) >= 2
  /\ ret[1].id \in ShownIds(store) \ ShownIds(before.store)
  /\ store.selectedNoteId \notin {Null, ret[1].id}

\* C36: selectedNoteId is null or the id of a note of the store that is not
\* soft-deleted, whatever actions were reduced, as long as SELECT_NOTE was
\* given null or the id of a note shown.
C36_SelectionNeverDangles ==
  store.selectedNoteId = Null \/ store.selectedNoteId \in ShownIds(store)

\* C37: a debounced save that fails, by a retry that fails after the quota was
\* met or by any other write failure, dispatches exactly one 'storage-error'
\* event.
C37_FailureReportedOnce ==
  \A save \in Range(lastSave) : ~save.ok => Len(events) = 1

\* the same for the failures that did not go through the recovery
C37_OnceWithoutRecovery ==
  \A save \in Range(lastSave) : (~save.ok /\ ~QuotaHit(save)) => Len(events) = 1

\* the backups in storage when the recovery of a save began
BackupsAtRecovery(save) == BackupsSeen(save) \ RemovedIn(save.log, "backup")

\* the newest backups of their base key among a set of backup keys
NewestPerBase(ks) == {b \in ks : \A c \in ks : BaseKey(c) = BaseKey(b) => c.ts <= b.ts}

\* C38: the recovery of a save removes only keys of the legacy scheme and
\* backups that are not the newest of their base key, and stores only the key
\* being saved: the other primary keys hold what they held, and the newest
\* backup of every base key is still stored.
C38_RecoveryKeepsNeeded ==
  \A save \in Range(lastSave) :
    QuotaHit(save) =>
      /\ RemovedIn(save.log, "legacy") \subseteq {Key(LegacyKeys[n]) : n \in DOMAIN LegacyKeys}
      /\ RemovedIn(save.log, "prune") \subseteq
           BackupsAtRecovery(save) \ NewestPerBase(BackupsAtRecovery(save))
      /\ \A i \in StageOf(save.log, "retry") : save.log[i].key = Key(save.key)
      /\ \A key \in PersistedKeys \ {save.key} :
           /\ Key(key) \in DOMAIN before.ls <=> Key(key) \in DOMAIN ls
           /\ Key(key) \in DOMAIN ls => ls[Key(key)] = before.ls[Key(key)]
      /\ NewestPerBase(BackupsAtRecovery(save)) \subseteq DOMAIN ls

\* a recovery during a save of the notes removed an old key and old backups of
\* both base keys, with the tags stored
C38_Witness ==
  \E save \in Range(lastSave) :
    /\ QuotaHit(save)
    /\ save.key = NOTES
    /\ RemovedIn(save.log, "legacy") # {}
    /\ \E b \in RemovedIn(save.log, "prune") : b.name = TAGS
    /\ \E b \in RemovedIn(save.log, "prune") : b.name = NOTES
    /\ Key(TAGS) \in DOMAIN ls

\* an UPDATE_FILTERS, a SELECT_NOTE or a SET_EDITING leaves the persisted
\* slices, the pending write and the storage as they were
TransientStep ==
  lastStep' \in {"UPDATE_FILTERS", "SELECT_NOTE", "SET_EDITING"} =>
    /\ store'.notes = store.notes
    /\ store'.tags = store.tags
    /\ store'.preferences = store.preferences
    /\ timer' = timer
    /\ ls' = ls

\* C39: UPDATE_FILTERS, SELECT_NOTE and SET_EDITING leave notes, tags and
\* preferences unchanged, schedule no write and change no stored key.
C39_TransientNotPersisted == [][TransientStep]_vars

\* the filters were changed while a write was pending and keys were stored
C39_Witness ==
  /\ lastStep = "UPDATE_FILTERS"
  /\ store.filters # before.store.filters
  /\ timer # <<>>
  /\ Key(NOTES) \in DOMAIN ls

====
